---- MODULE Spec2Model ----
(***************************************************************************)
(* A model of codot: the "sync" command (codot/commands/sync.py), the      *)
(* "role" command (codot/commands/role.py), the per-user lock              *)
(* (Command.lock) and the files they read and write.                       *)
(*                                                                         *)
(* Text is modelled as a sequence of atoms (single characters, or a whole   *)
(* word such as a settings key that nothing ever splits), a file as a      *)
(* sequence of lines (each line without its trailing newline).             *)
(***************************************************************************)
EXTENDS Integers, Sequences, FiniteSets, TLC

(***************************************************************************)
(* Bounds of the model.                                                    *)
(***************************************************************************)
\* Number of command invocations that can be started in one behaviour.
MaxRuns == 2
\* Largest value of the clock; every user edit of a target advances it.
MaxTime == 2

\* The processes (command invocations running side by side).
Procs == {1, 2}

NoProc == 0

(***************************************************************************)
(* Text helpers.                                                           *)
(***************************************************************************)
\* s[i ..] starts with lit.
StartsWithAt(s, i, lit) ==
    /\ i + Len(lit) - 1 <= Len(s)
    /\ \A k \in 1..Len(lit) : s[i + k - 1] = lit[k]

\* str.endswith
EndsWith(s, suf) ==
    /\ Len(suf) <= Len(s)
    /\ StartsWithAt(s, Len(s) - Len(suf) + 1, suf)

\* The config file extension.
CONFIG_EXT == <<".", "c", "o", "n", "f">>

\* Characters str.strip() removes.
Whitespace == {" "}

\* Characters the class [\w-] matches.
WordChars == {"a", "b", "c", "d", "e", "m", "q", "r", "s", "u", "z",
              "1", "2", "3", "4", "5", "_", "-"}

RECURSIVE LStrip(_)
LStrip(s) ==
    IF s # <<>> /\ Head(s) \in Whitespace THEN LStrip(Tail(s)) ELSE s

RECURSIVE RStrip(_)
RStrip(s) ==
    IF s # <<>> /\ s[Len(s)] \in Whitespace
    THEN RStrip(SubSeq(s, 1, Len(s) - 1)) ELSE s

\* str.strip
Strip(s) == RStrip(LStrip(s))

\* The positions at which sub occurs in s.
Occurrences(s, sub) == {i \in 1..Len(s) : StartsWithAt(s, i, sub)}

SetMax(S) == CHOOSE x \in S : \A y \in S : y <= x
SetMin(S) == CHOOSE x \in S : \A y \in S : x <= y

\* codot.util.rshave: drop the last occurrence of substring from string.
rshave(string, substring) ==
    IF substring # <<>> /\ Occurrences(string, substring) # {}
    THEN LET i == SetMax(Occurrences(string, substring))
         IN SubSeq(string, 1, i - 1)
            \o SubSeq(string, i + Len(substring), Len(string))
    ELSE string

\* codot.utils.rm_ext: drop substring when orig_string ends with it.
rm_ext(orig_string, substring) ==
    IF substring # <<>> /\ EndsWith(orig_string, substring)
    THEN SubSeq(orig_string, 1, Len(orig_string) - Len(substring))
    ELSE orig_string

\* add_ext that leaves the name as it was typed.
add_ext_Keep(orig_string, substring) == orig_string

\* codot.utils.add_ext: append substring unless it is already there.
add_ext(orig_string, substring) ==
    IF substring # <<>>
    THEN rm_ext(orig_string, substring) \o substring
    ELSE orig_string

\* str.replace(old, new): leftmost non-overlapping occurrences.
RECURSIVE Replace(_, _, _)
Replace(s, old, new) ==
    IF s = <<>> THEN <<>>
    ELSE IF old # <<>> /\ StartsWithAt(s, 1, old)
         THEN new \o Replace(SubSeq(s, Len(old) + 1, Len(s)), old, new)
         ELSE <<Head(s)>> \o Replace(Tail(s), old, new)

\* dict.update
DictUpdate(a, b) ==
    [k \in DOMAIN a \cup DOMAIN b |-> IF k \in DOMAIN b THEN b[k] ELSE a[k]]

EmptyDict == [k \in {} |-> <<>>]

Reverse(s) == [i \in 1..Len(s) |-> s[Len(s) + 1 - i]]

(***************************************************************************)
(* Flat key=value files (ConfigFile) and the program settings.             *)
(***************************************************************************)
\* ConfigFile.COMMENT_REGEX = ^\s*# matches the line.
IsComment(line) == LStrip(line) # <<>> /\ Head(LStrip(line)) = "#"

SEPARATOR == "="

HasSeparator(line) == \E i \in 1..Len(line) : line[i] = SEPARATOR

\* A split at the last separator of the line.
Partition_Last(line) ==
    LET i == SetMax({k \in 1..Len(line) : line[k] = SEPARATOR})
    IN <<SubSeq(line, 1, i - 1), SubSeq(line, i + 1, Len(line))>>

\* line.partition(SEPARATOR)[::2]: the text before and after the first
\* separator.
Partition(line) ==
    LET i == SetMin({k \in 1..Len(line) : line[k] = SEPARATOR})
    IN <<SubSeq(line, 1, i - 1), SubSeq(line, i + 1, Len(line))>>

\* ConfigFile.read on a file that could be opened: raw_vals after the loop.
RECURSIVE ReadLines(_, _)
ReadLines(lines, raw_vals) ==
    IF lines = <<>> THEN raw_vals
    ELSE LET line == Head(lines)
         IN IF ~IsComment(line) /\ HasSeparator(line)
            THEN ReadLines(Tail(lines),
                     DictUpdate(raw_vals,
                         [k \in {Strip(Partition(line)[1])} |->
                             Strip(Partition(line)[2])]))
            ELSE ReadLines(Tail(lines), raw_vals)

\* ProgramConfigFile._defaults
Defaults ==
    [k \in {"IdentifierFormat", "OverwriteAlways"} |->
        IF k = "IdentifierFormat" THEN <<"{", "{", "%", "s", "}", "}">>
        ELSE <<"n", "o">>]

\* ProgramConfigFile.vals[key]: the raw value, else the default.
Vals(raw_vals, key) ==
    IF <<key>> \in DOMAIN raw_vals THEN raw_vals[<<key>>]
    ELSE Defaults[key]

\* Python truth value of a str.
Truthy(value) == value # <<>>

(***************************************************************************)
(* Identifiers in template lines.                                          *)
(***************************************************************************)
PLACEHOLDER == <<"%", "s">>

\* What re.escape puts a backslash before: "all" characters but letters,
\* digits and "_" (Python 3.5 and 3.6) or the "special" ones only (3.7 and
\* later). setup.py admits every version from 3.5 on.
VARIABLE re_escape

EscapeKinds == {"all", "special"}

\* The literal text of an identifier format before and after "%s".
FormatPrefix(id_format) ==
    SubSeq(id_format, 1, SetMin(Occurrences(id_format, PLACEHOLDER)) - 1)

FormatSuffix(id_format) ==
    SubSeq(id_format, SetMin(Occurrences(id_format, PLACEHOLDER)) + 2,
           Len(id_format))

\* IdentifierFormat.replace("%s", identifier_name)
ExpandFormat(id_format, identifier_name) ==
    Replace(id_format, PLACEHOLDER, identifier_name)

\* Length of the longest run of [\w-] characters of line starting at j.
RECURSIVE WordRun(_, _)
WordRun(line, j) ==
    IF j <= Len(line) /\ line[j] \in WordChars
    THEN 1 + WordRun(line, j + 1) ELSE 0

\* Lengths k of a group ([\w-]+) starting at j that is followed by suf.
GroupLengths(line, j, suf) ==
    {k \in 1..WordRun(line, j) : StartsWithAt(line, j + k, suf)}

\* The compiled identifier_regex matches at position i of line.
MatchesAt(line, i, pre, suf) ==
    /\ StartsWithAt(line, i, pre)
    /\ GroupLengths(line, i + Len(pre), suf) # {}

\* identifier_regex.findall(line), scanning from position i: the regex is
\* pre([\w-]+)suf, the group is greedy and gives characters back until suf
\* matches; matches do not overlap.
RECURSIVE FindAll(_, _, _, _)
FindAll(line, i, pre, suf) ==
    IF i > Len(line) THEN <<>>
    ELSE IF MatchesAt(line, i, pre, suf)
         THEN LET j == i + Len(pre)
                  k == SetMax(GroupLengths(line, j, suf))
              IN <<SubSeq(line, j, j + k - 1)>>
                 \o FindAll(line, j + k + Len(suf), pre, suf)
         ELSE FindAll(line, i + 1, pre, suf)

\* The inner loop of the rendering: new_line after the identifiers names
\* have been handled in order.
RECURSIVE RenderLine(_, _, _, _)
RenderLine(new_line, names, config_values, id_format) ==
    IF names = <<>> THEN new_line
    ELSE IF Head(names) \notin DOMAIN config_values
         THEN RenderLine(new_line, Tail(names), config_values, id_format)
         ELSE RenderLine(
                  Replace(new_line, ExpandFormat(id_format, Head(names)),
                          config_values[Head(names)]),
                  Tail(names), config_values, id_format)

\* findall of a regex without a group, the literal text lit: the matches
\* themselves, leftmost and not overlapping.
RECURSIVE LiteralMatches(_, _, _)
LiteralMatches(line, i, lit) ==
    IF i > Len(line) \/ lit = <<>> THEN <<>>
    ELSE IF StartsWithAt(line, i, lit)
         THEN <<lit>> \o LiteralMatches(line, i + Len(lit), lit)
         ELSE LiteralMatches(line, i + 1, lit)

\* identifier_regex.findall(line). Where re.escape puts a backslash before
\* "%" (python_requires is >=3.5, and re.escape does so up to 3.6) the
\* "\%s" it leaves is replaced by the group; where it does not (3.7 and
\* later) the replace finds nothing and the regex is the literal format.
IdentifiersOf(line, id_format) ==
    IF re_escape = "all"
    THEN FindAll(line, 1, FormatPrefix(id_format), FormatSuffix(id_format))
    ELSE LiteralMatches(line, 1, id_format)

\* The text written to the temporary file for one template.
RenderFile(lines, config_values, id_format) ==
    [n \in 1..Len(lines) |->
        RenderLine(lines[n], IdentifiersOf(lines[n], id_format),
                   config_values, id_format)]

\* The identifiers of a line that are in no config, in order of appearance.
RECURSIVE MissingIn(_, _)
MissingIn(names, config_values) ==
    IF names = <<>> THEN <<>>
    ELSE IF Head(names) \notin DOMAIN config_values
         THEN <<Head(names)>> \o MissingIn(Tail(names), config_values)
         ELSE MissingIn(Tail(names), config_values)

\* The input_errors one template adds.
RECURSIVE FileErrors(_, _, _)
FileErrors(lines, config_values, id_format) ==
    IF lines = <<>> THEN <<>>
    ELSE MissingIn(IdentifiersOf(Head(lines), id_format), config_values)
         \o FileErrors(Tail(lines), config_values, id_format)

(***************************************************************************)
(* The files of the program directory.                                     *)
(***************************************************************************)
\* The template files, in the order rec_scan(TEMPLATES_DIR) yields them.
TemplateNames == <<"t1", "t2">>

Templates == {TemplateNames[i] : i \in 1..Len(TemplateNames)}

\* The text of the template files: "{{a}}" and "x{{c}}{{a}}".
TemplateText ==
    [t \in Templates |->
        IF t = "t1" THEN << <<"{", "{", "a", "}", "}">> >>
        ELSE << <<"x", "{", "{", "c", "}", "}", "{", "{", "a", "}", "}">> >>]

\* The regular files directly under CONFIG_DIR: d.conf holds "a=1", "b = 2".
ConfigFiles ==
    [f \in {<<"d">> \o CONFIG_EXT} |->
        << <<"a", "=", "1">>, <<"b", " ", "=", " ", "2">> >>]

\* The one role directory under CONFIG_DIR and its variant files:
\* r/s.conf holds "a=3"; r/z.conf holds "# u", "a=4", "c=5", "a=5";
\* r/v.conf holds "a={{c}}", "c=5".
RoleName == <<"r">>

RoleFiles ==
    [f \in {<<"s">> \o CONFIG_EXT, <<"v">> \o CONFIG_EXT,
            <<"z">> \o CONFIG_EXT} |->
        IF f = <<"s">> \o CONFIG_EXT THEN << <<"a", "=", "3">> >>
        ELSE IF f = <<"v">> \o CONFIG_EXT
        THEN << <<"a", "=", "{", "{", "c", "}", "}">>, <<"c", "=", "5">> >>
        ELSE << <<"#", " ", "u">>, <<"a", "=", "4">>, <<"c", "=", "5">>,
                <<"a", "=", "5">> >>]

\* A role's pointer: the symlink CONFIG_DIR/<role>.conf and its destination.
NoLink == <<>>

RolePath(config_name) == <<RoleName, config_name>>

\* The role's symlink when the file it names, g.conf, has been deleted.
DanglingLink == RolePath(<<"g">> \o CONFIG_EXT)

\* The text settings.conf can hold: a comment and "OverwriteAlways = no",
\* or "OverwriteAlways=".
SettingsFiles ==
    { << <<"#">>, <<"OverwriteAlways", " ", "=", " ", "n", "o">> >>,
      << <<"OverwriteAlways", "=">> >> }

\* The text the priority file can hold.
PriorityFiles ==
    { << RoleName, <<" ">>, <<"d">> \o CONFIG_EXT >>,
      << <<"d">>, <<"m">> >> }

\* open() of CONFIG_DIR/config_name failed.
NoFile == <<"ENOENT">>

\* The lines open(CONFIG_DIR/config_name) reads; the role's symlink is
\* followed.
OpenConfig(config_name, lnk) ==
    IF config_name \in DOMAIN ConfigFiles THEN ConfigFiles[config_name]
    ELSE IF /\ config_name = RoleName \o CONFIG_EXT
            /\ lnk # NoLink
            /\ lnk[1] = RoleName
            /\ lnk[2] \in DOMAIN RoleFiles
         THEN RoleFiles[lnk[2]]
         ELSE NoFile

\* config_priority: the non-blank lines of the priority file as file names.
RECURSIVE ConfigPriority(_)
ConfigPriority(lines) ==
    IF lines = <<>> THEN <<>>
    ELSE IF Strip(Head(lines)) # <<>>
         THEN <<rshave(Strip(Head(lines)), CONFIG_EXT) \o CONFIG_EXT>>
              \o ConfigPriority(Tail(lines))
         ELSE ConfigPriority(Tail(lines))

\* The loop "config_values.update(config_file.raw_vals)" over names.
RECURSIVE UpdateAll(_, _, _)
UpdateAll(names, config_values, lnk) ==
    IF names = <<>> THEN config_values
    ELSE UpdateAll(Tail(names),
             DictUpdate(config_values,
                        ReadLines(OpenConfig(Head(names), lnk), EmptyDict)),
             lnk)

\* The merge taking the priority file top to bottom.
FoldOrder_Forward(names) == names

\* The order in which the config files are folded into config_values.
FoldOrder(names) == Reverse(names)

\* config_values of a sync that could open every config file.
MergeValues(lines, lnk) ==
    UpdateAll(FoldOrder(ConfigPriority(lines)), EmptyDict, lnk)

\* Every file the priority file names can be opened.
AllOpen(lines, lnk) ==
    \A i \in 1..Len(ConfigPriority(lines)) :
        OpenConfig(ConfigPriority(lines)[i], lnk) # NoFile

(***************************************************************************)
(* The daemon: paths are sequences of components, names sequences of       *)
(* characters.                                                             *)
(***************************************************************************)
PROGRAM_DIR == << <<"c", "o", "d", "o", "t">> >>
TEMPLATES_DIR ==
    PROGRAM_DIR \o << <<"t", "e", "m", "p", "l", "a", "t", "e", "s">> >>
CONFIG_DIR == PROGRAM_DIR \o << <<"c", "o", "n", "f", "i", "g">> >>
PRIORITY_FILE == PROGRAM_DIR \o << <<"p", "r", "i", "o", "r", "i", "t", "y">> >>

\* The file name of a template below TEMPLATES_DIR (and of its source file
\* below HOME_DIR).
TemplateFileName(t) == IF t = "t1" THEN <<"t", "1">> ELSE <<"t", "2">>

\* The directories main() has a watch on: PROGRAM_DIR, and with rec=True
\* TEMPLATES_DIR, CONFIG_DIR and the role's directory.
WatchPaths ==
    {PROGRAM_DIR, TEMPLATES_DIR, CONFIG_DIR, CONFIG_DIR \o <<RoleName>>}

\* The names of the files and directories an event can be about.
EventNames ==
    {TemplateFileName(t) : t \in Templates}
    \cup { <<"p", "r", "i", "o", "r", "i", "t", "y">>, <<"d">> \o CONFIG_EXT,
           <<"s">> \o CONFIG_EXT, <<"m">> }

\* The events the mask IN_CLOSE_WRITE | IN_CREATE lets through.
Events ==
    {e \in [path : WatchPaths, name : EventNames, dir : BOOLEAN,
            maskname : {"IN_CLOSE_WRITE", "IN_CREATE", "IN_CREATE|IN_ISDIR"}] :
        e.dir <=> e.maskname = "IN_CREATE|IN_ISDIR"}

NoEvent == [path |-> <<>>, name |-> <<>>, dir |-> FALSE, maskname |-> "none"]

\* os.path.commonpath of two absolute paths: their longest common prefix.
RECURSIVE commonpath(_, _)
commonpath(a, b) ==
    IF a = <<>> \/ b = <<>> \/ Head(a) # Head(b) THEN <<>>
    ELSE <<Head(a)>> \o commonpath(Tail(a), Tail(b))

\* event.pathname
Pathname(e) == e.path \o <<e.name>>

\* os.path.relpath(path, start) for a path below start.
relpath(path, start) == SubSeq(path, Len(start) + 1, Len(path))

(***************************************************************************)
(* State.                                                                  *)
(***************************************************************************)
VARIABLES
    now,              \* the clock (time.time() and the file system's)
    lock,             \* the process bound to the socket "\0codot-<uid>"
    settings,         \* the lines of settings.conf
    priority,         \* the lines of the priority file
    templates,        \* the lines of each template file
    link,             \* destination of the role's symlink, or NoLink
    info,             \* info.json
    source,           \* the source (target) file of each template
    pc,               \* where each process is in its command
    cmd,              \* the command line of each process
    result,           \* how the last command of each process ended
    stdout,           \* the lines the command of each process has printed
    raw_vals,         \* cfg_file.raw_vals
    info_vals,        \* info_file.vals
    overwrite_source, \* local of SyncCommand.main
    template_pairs,   \* local of SyncCommand.main (the templates' names)
    config_values,    \* local of SyncCommand.main
    tmp_paths,        \* the temporary files: their text and mtime
    input_errors,     \* local of SyncCommand.main
    config_name,      \* RoleCommand.config_name
    runs,             \* invocations started so far
    wrote,            \* history: the targets each invocation has replaced
    committed,        \* history: info.json as last written completely
    stable,           \* history: the targets' text as the last completed
                      \* sync left it and that sync's overwrite argument,
                      \* while nothing has been edited since
    event,            \* the inotify event Daemon._sync was last called with
    spawned,          \* the syncs the daemon has started with Popen
    templates_dir,    \* os.path.isdir(TEMPLATES_DIR)
    notifier,         \* the daemon: the events read and not yet handled,
                      \* the Popen object _sync waits on, and as history
                      \* the processes the daemon has started
    selected          \* the config the last completed switch of the role
                      \* printed, NoArg before there was one

vars == <<now, lock, settings, priority, templates, re_escape, link, info,
          source, pc, cmd, result, stdout, raw_vals, info_vals,
          overwrite_source,
          template_pairs, config_values, tmp_paths, input_errors, config_name,
          runs, wrote, committed, stable, event, spawned, notifier,
          selected, templates_dir>>

\* What no sync and no switch of a role changes: the user's files, the
\* Python in use, and the daemon.
env == <<settings, priority, templates, templates_dir, re_escape, event,
         spawned, notifier>>

\* The memory of a process.
locals == <<raw_vals, info_vals, overwrite_source, template_pairs,
            config_values, tmp_paths, input_errors, config_name, wrote>>

\* Everything outside the processes.
world == <<now, env, link, info, source, runs, committed, stable, selected>>

\* The start of a command makes the directories of the program that are
\* missing: os.makedirs(TEMPLATES_DIR, exist_ok=True) in Command.__init__,
\* os.mkdir(TEMPLATES_DIR) in the Command.main the sync calls first.
makedirs ==
    /\ templates_dir' = TRUE
    /\ UNCHANGED <<now, settings, priority, templates, re_escape, event,
                   spawned, notifier, link, info, source, runs, committed,
                   stable, selected>>

NoArg == <<"None">>

\* The daemon in notifier.loop() with nothing to handle.
NotifierAtRest == [events |-> <<>>, cmd |-> NoProc, popened |-> {}]

\* info.json does not exist; info.json was opened for writing (truncated)
\* and the JSON text has not been written out.
InfoAbsent == [state |-> "absent", LastSync |-> 0]
InfoTruncated == [state |-> "truncated", LastSync |-> 0]
InfoFile(LastSync) == [state |-> "file", LastSync |-> LastSync]

\* info_file.vals before info.json has been read.
NoVals == [LastSync |-> 0]

\* No completed sync to compare with.
Unstable ==
    [valid |-> FALSE, overwrite |-> FALSE, text |-> [t \in Templates |-> <<>>]]

\* What can be read at the path of a source file.
Text(f) == <<f.kind, f.content>>

Absent == [kind |-> "absent", content |-> <<>>, mtime |-> 0]
Directory == [kind |-> "dir", content |-> <<>>, mtime |-> 0]
File(content, mtime) == [kind |-> "file", content |-> content, mtime |-> mtime]

\* What a user writes into a source file.
UserText == << <<"u">> >>

\* The command lines.
SyncCommands == [kind : {"sync"}, overwrite : BOOLEAN]

RoleCommands ==
    [kind : {"role"}, role_name : {RoleName},
     config_name : {NoArg, <<"s">>, <<"s">> \o CONFIG_EXT, <<"m">>}]
    \cup [kind : {"role"}, role_name : {<<"q">>},
          config_name : {NoArg, <<"s">>}]
    \cup [kind : {"role"}, role_name : {NoArg}, config_name : {NoArg}]

NoCommand == [kind |-> "none"]

Range(seq) == {seq[i] : i \in 1..Len(seq)}

Init ==
    /\ now = 1
    /\ lock = NoProc
    /\ settings \in SettingsFiles
    /\ priority \in PriorityFiles
    /\ templates = TemplateText
    /\ re_escape \in EscapeKinds
    /\ link \in {DanglingLink, RolePath(<<"z">> \o CONFIG_EXT)}
    /\ info \in {InfoAbsent, InfoFile(1)}
    /\ source \in {f \in [Templates -> {Absent, Directory, File(<<>>, 1)}] :
                      f["t1"].kind = "file"}
    /\ pc = [p \in Procs |-> "idle"]
    /\ cmd = [p \in Procs |-> NoCommand]
    /\ result = [p \in Procs |-> "none"]
    /\ stdout = [p \in Procs |-> <<>>]
    /\ raw_vals = [p \in Procs |-> EmptyDict]
    /\ info_vals = [p \in Procs |-> NoVals]
    /\ overwrite_source = [p \in Procs |-> FALSE]
    /\ template_pairs = [p \in Procs |-> <<>>]
    /\ config_values = [p \in Procs |-> EmptyDict]
    /\ tmp_paths = [p \in Procs |-> <<>>]
    /\ input_errors = [p \in Procs |-> <<>>]
    /\ config_name = [p \in Procs |-> NoArg]
    /\ runs = 0
    /\ wrote = [p \in Procs |-> {}]
    /\ committed = info
    /\ stable = Unstable
    /\ event = NoEvent
    /\ spawned = 0
    /\ notifier = NotifierAtRest
    /\ templates_dir = TRUE
    /\ selected = NoArg

(***************************************************************************)
(* A second set of program directories, for the rendering: the settings    *)
(* give one of the identifier formats of test_propagate_config_changes     *)
(* and the templates are written with it.                                  *)
(***************************************************************************)
IdFormats ==
    { <<"{", "{", "%", "s", "}", "}">>,
      <<"_", "_", "%", "s", "_", "_">>,
      <<"$", "{", "%", "s", "}">> }

\* A template line as its author wrote it: literal text and tokens, each
\* token the identifier format with a name in the place of "%s".
Lit(text) == [tok |-> FALSE, text |-> text]
Tok(name) == [tok |-> TRUE, text |-> name]

\* The lines "<a>", "<a> <a>", "x<c>-<a>", "<e> <c>" and "<a> <c>", <k> the
\* token of k.
LineA == <<Tok(<<"a">>)>>
LineAA == <<Tok(<<"a">>), Lit(<<" ">>), Tok(<<"a">>)>>
LineCA == <<Lit(<<"x">>), Tok(<<"c">>), Lit(<<"-">>), Tok(<<"a">>)>>
LineEC == <<Tok(<<"e">>), Lit(<<" ">>), Tok(<<"c">>)>>
LineAC == <<Tok(<<"a">>), Lit(<<" ">>), Tok(<<"c">>)>>

\* The templates t1 and t2 can be, as sequences of lines.
TemplateShapes ==
    [t \in Templates |->
        IF t = "t1" THEN {<<LineA>>, <<LineAA, LineEC>>}
        ELSE {<<LineCA>>}]

\* The text of a line written with id_format.
RECURSIVE LineText(_, _)
LineText(shape, id_format) ==
    IF shape = <<>> THEN <<>>
    ELSE (IF Head(shape).tok
          THEN FormatPrefix(id_format) \o Head(shape).text
               \o FormatSuffix(id_format)
          ELSE Head(shape).text)
         \o LineText(Tail(shape), id_format)

FileText(shape, id_format) ==
    [n \in 1..Len(shape) |-> LineText(shape[n], id_format)]

\* settings.conf that sets IdentifierFormat.
FormatSettings(id_format) == << <<"IdentifierFormat", "=">> \o id_format >>

InitInputs ==
    /\ now = 1
    /\ lock = NoProc
    /\ re_escape \in EscapeKinds
    /\ \E id_format \in IdFormats :
          /\ settings = FormatSettings(id_format)
          /\ \E shape \in [Templates -> UNION {TemplateShapes[t] :
                                                  t \in Templates}] :
                /\ \A t \in Templates : shape[t] \in TemplateShapes[t]
                /\ templates = [t \in Templates |->
                                   FileText(shape[t], id_format)]
    /\ priority = << RoleName, <<"d">> >>
    /\ link = RolePath(<<"z">> \o CONFIG_EXT)
    /\ info = InfoFile(1)
    /\ source = [t \in Templates |-> File(<<>>, 1)]
    /\ pc = [p \in Procs |-> "idle"]
    /\ cmd = [p \in Procs |-> NoCommand]
    /\ result = [p \in Procs |-> "none"]
    /\ stdout = [p \in Procs |-> <<>>]
    /\ raw_vals = [p \in Procs |-> EmptyDict]
    /\ info_vals = [p \in Procs |-> NoVals]
    /\ overwrite_source = [p \in Procs |-> FALSE]
    /\ template_pairs = [p \in Procs |-> <<>>]
    /\ config_values = [p \in Procs |-> EmptyDict]
    /\ tmp_paths = [p \in Procs |-> <<>>]
    /\ input_errors = [p \in Procs |-> <<>>]
    /\ config_name = [p \in Procs |-> NoArg]
    /\ runs = 0
    /\ wrote = [p \in Procs |-> {}]
    /\ committed = info
    /\ stable = Unstable
    /\ event = NoEvent
    /\ spawned = 0
    /\ notifier = NotifierAtRest
    /\ templates_dir = TRUE
    /\ selected = NoArg

\* No command has run yet, and the daemon has seen no event.
AtRest ==
    /\ now = 1
    /\ lock = NoProc
    /\ pc = [p \in Procs |-> "idle"]
    /\ cmd = [p \in Procs |-> NoCommand]
    /\ result = [p \in Procs |-> "none"]
    /\ stdout = [p \in Procs |-> <<>>]
    /\ raw_vals = [p \in Procs |-> EmptyDict]
    /\ info_vals = [p \in Procs |-> NoVals]
    /\ overwrite_source = [p \in Procs |-> FALSE]
    /\ template_pairs = [p \in Procs |-> <<>>]
    /\ config_values = [p \in Procs |-> EmptyDict]
    /\ tmp_paths = [p \in Procs |-> <<>>]
    /\ input_errors = [p \in Procs |-> <<>>]
    /\ config_name = [p \in Procs |-> NoArg]
    /\ runs = 0
    /\ wrote = [p \in Procs |-> {}]
    /\ committed = info
    /\ stable = Unstable
    /\ event = NoEvent
    /\ spawned = 0
    /\ notifier = NotifierAtRest
    /\ templates_dir = TRUE

\* A template file the user of the program may not read.
UnreadableFile == << <<"EACCES">> >>

\* A template file that has been removed.
RemovedFile == << <<"ENOENT">> >>

\* The program directory with the role's pointer at v.conf, whose value of
\* a is the token of c, with the line "<a> <c>" in t1, with templates that
\* may be unreadable or hold the token of e, which no config defines, with
\* any LastSync, and with or without an empty OverwriteAlways.
InitRender ==
    /\ settings \in
          {FormatSettings(<<"{", "{", "%", "s", "}", "}">>),
           FormatSettings(<<"{", "{", "%", "s", "}", "}">>)
               \o << <<"OverwriteAlways", "=">> >>}
    /\ priority = << RoleName, <<"d">> >>
    /\ templates \in
          [Templates ->
              {FileText(<<LineAC>>, <<"{", "{", "%", "s", "}", "}">>),
               FileText(<<LineCA>>, <<"{", "{", "%", "s", "}", "}">>),
               FileText(<<LineEC>>, <<"{", "{", "%", "s", "}", "}">>),
               UnreadableFile}]
    /\ templates["t1"] # FileText(<<LineEC>>, <<"{", "{", "%", "s", "}", "}">>)
    /\ templates["t1"] # FileText(<<LineCA>>, <<"{", "{", "%", "s", "}", "}">>)
    /\ templates["t2"] # FileText(<<LineAC>>, <<"{", "{", "%", "s", "}", "}">>)
    /\ re_escape \in EscapeKinds
    /\ link = RolePath(<<"v">> \o CONFIG_EXT)
    /\ info \in {InfoFile(n) : n \in 0..MaxTime}
    /\ source \in [Templates -> {Absent, File(<<>>, 1)}]
    /\ selected = NoArg
    /\ AtRest

\* The program directory the user then edits: the identifier format
\* "{{%s}}", the priority file "r", " ", "d.conf", the role on z.conf.
InitEdits ==
    /\ settings = FormatSettings(<<"{", "{", "%", "s", "}", "}">>)
    /\ priority = << RoleName, <<" ">>, <<"d">> \o CONFIG_EXT >>
    /\ templates = TemplateText
    /\ re_escape \in EscapeKinds
    /\ link = RolePath(<<"z">> \o CONFIG_EXT)
    /\ info = InfoFile(1)
    /\ source = [t \in Templates |-> File(<<>>, 1)]
    /\ selected = NoArg
    /\ AtRest

(***************************************************************************)
(* Process start and exit.                                                 *)
(***************************************************************************)
\* A lock that outlives the process that took it (a lock file).
ReleaseOnExit_Never(p) == lock

\* The socket of a process is closed when the process exits, which frees
\* the name it was bound to.
ReleaseOnExit(p) == IF lock = p THEN NoProc ELSE lock

\* A bind() that never finds the name taken.
BindSucceeds_Always == TRUE

\* bind() succeeds when no live socket is bound to the name.
BindSucceeds == lock = NoProc

\* The process ends: by returning from main(), by an exception, or killed.
\* Its memory is gone with it.
ExitWith(p, how, printed) ==
    /\ pc' = [pc EXCEPT ![p] = "done"]
    /\ result' = [result EXCEPT ![p] = how]
    /\ stdout' = [stdout EXCEPT ![p] = printed]
    /\ lock' = ReleaseOnExit(p)
    /\ raw_vals' = [raw_vals EXCEPT ![p] = EmptyDict]
    /\ info_vals' = [info_vals EXCEPT ![p] = NoVals]
    /\ overwrite_source' = [overwrite_source EXCEPT ![p] = FALSE]
    /\ template_pairs' = [template_pairs EXCEPT ![p] = <<>>]
    /\ config_values' = [config_values EXCEPT ![p] = EmptyDict]
    /\ tmp_paths' = [tmp_paths EXCEPT ![p] = <<>>]
    /\ input_errors' = [input_errors EXCEPT ![p] = <<>>]
    /\ config_name' = [config_name EXCEPT ![p] = NoArg]
    /\ wrote' = [wrote EXCEPT ![p] = {}]
    /\ cmd' = [cmd EXCEPT ![p] = NoCommand]

\* The command ends having printed nothing more.
Exit(p, how) == ExitWith(p, how, stdout[p])

\* The process goes on to its next step.
Goto(p, next) ==
    /\ pc' = [pc EXCEPT ![p] = next]
    /\ UNCHANGED <<result, cmd, stdout>>

\* The program is started from the shell: main() up to command.main().
\* Which command it runs shows when the command takes the lock, the first
\* thing every command does.
Start(p) ==
    /\ pc[p] \in {"idle", "done"}
    /\ runs < MaxRuns
    /\ runs' = runs + 1
    /\ pc' = [pc EXCEPT ![p] = "start"]
    /\ result' = [result EXCEPT ![p] = "running"]
    /\ stdout' = [stdout EXCEPT ![p] = <<>>]
    /\ UNCHANGED <<now, lock, env, selected, link, info, source, committed,
                   stable, cmd, locals>>

\* SIGKILL, or a signal main() turns into ProgramError, at any point.
Kill(p) ==
    /\ pc[p] \notin {"idle", "done"}
    /\ Exit(p, "Killed")
    /\ UNCHANGED world

(***************************************************************************)
(* SyncCommand.main                                                        *)
(***************************************************************************)
\* SyncCommand(overwrite): super().main() and self.lock()
SyncLock(p, c) ==
    /\ pc[p] = "start"
    /\ IF BindSucceeds
       THEN /\ lock' = p
            /\ pc' = [pc EXCEPT ![p] = "read"]
            /\ cmd' = [cmd EXCEPT ![p] = c]
            /\ UNCHANGED <<result, stdout, locals>>
       ELSE Exit(p, "StatusError: locked")
    /\ makedirs

\* self.cfg_file.read(), self.info_file.read() and overwrite_source.
\* ProgramInfoFile has no generate(), and json.load fails on a file that
\* holds no JSON text: both end the process with an unhandled exception.
SyncRead(p) ==
    /\ pc[p] = "read"
    /\ IF info.state = "file"
       THEN /\ raw_vals' = [raw_vals EXCEPT ![p] =
                               ReadLines(settings, EmptyDict)]
            /\ info_vals' = [info_vals EXCEPT ![p] =
                                [LastSync |-> info.LastSync]]
            /\ overwrite_source' = [overwrite_source EXCEPT ![p] =
                   \/ cmd[p].overwrite
                   \/ Truthy(Vals(raw_vals'[p], "OverwriteAlways"))]
            /\ Goto(p, "discover")
            /\ UNCHANGED <<lock, template_pairs, config_values, tmp_paths,
                           input_errors, config_name, wrote>>
       ELSE Exit(p, IF info.state = "absent" THEN "AttributeError"
                    ELSE "JSONDecodeError")
    /\ UNCHANGED world

\* A loop that takes a missing source file for one newer than any sync.
SourceMtime_Missing(t) ==
    IF source[t].kind = "absent" THEN MaxTime + 1 ELSE source[t].mtime

\* The modification time the loop over the templates uses for a source.
SourceMtime(t) == IF source[t].kind = "absent" THEN 0 ELSE source[t].mtime

\* The test that puts a template in template_pairs.
Eligible(t, LastSync, overwrite) == SourceMtime(t) <= LastSync \/ overwrite

\* The files rec_scan(TEMPLATES_DIR) yields.
Listed == {t \in Templates : templates[t] # RemovedFile}

\* The loop over rec_scan(TEMPLATES_DIR): os.scandir raises when the
\* directory has been removed since the sync started.
SyncDiscover(p) ==
    /\ pc[p] = "discover"
    /\ IF ~templates_dir
       THEN Exit(p, "FileNotFoundError: templates")
       ELSE IF \E t \in Listed : source[t].kind = "dir"
       THEN Exit(p, "StatusError: directory")
       ELSE /\ template_pairs' = [template_pairs EXCEPT ![p] =
                   SelectSeq(TemplateNames,
                       LAMBDA t : /\ t \in Listed
                                  /\ Eligible(t, info_vals[p].LastSync,
                                              overwrite_source[p]))]
            /\ Goto(p, "merge")
            /\ UNCHANGED <<lock, raw_vals, info_vals, overwrite_source,
                           config_values, tmp_paths, input_errors,
                           config_name, wrote>>
    /\ UNCHANGED world

\* Reading the priority file and the config files it names.
SyncMerge(p) ==
    /\ pc[p] = "merge"
    /\ IF AllOpen(priority, link)
       THEN /\ config_values' = [config_values EXCEPT ![p] =
                                    MergeValues(priority, link)]
            /\ Goto(p, "render")
            /\ UNCHANGED <<lock, raw_vals, info_vals, overwrite_source,
                           template_pairs, tmp_paths, input_errors,
                           config_name, wrote>>
       ELSE Exit(p, "FileParseError")
    /\ UNCHANGED world

\* input_errors after the templates pairs have been rendered.
RECURSIVE AllErrors(_, _, _)
AllErrors(pairs, values, id_format) ==
    IF pairs = <<>> THEN <<>>
    ELSE FileErrors(templates[Head(pairs)], values, id_format)
         \o AllErrors(Tail(pairs), values, id_format)

\* A rendering that reads the config files again.
RenderValues_Reread(p) == MergeValues(priority, link)

\* The mapping the rendering loop looks identifiers up in: the local
\* config_values, filled before the loop.
RenderValues(p) == config_values[p]

\* An open() that no permission stops.
Readable_Any(t) == TRUE

\* open(template_path, "r") raises neither PermissionError nor
\* FileNotFoundError.
Readable(t) == templates[t] \notin {UnreadableFile, RemovedFile}

\* The loop that writes one temporary file per pair. The OSError of an
\* open() ends the process; the temporary files written before it go with
\* the temporary directory.
SyncRender(p) ==
    /\ pc[p] = "render"
    /\ IF \E i \in 1..Len(template_pairs[p]) :
             ~Readable(template_pairs[p][i])
       THEN /\ Exit(p, "OSError: template")
            /\ UNCHANGED world
       ELSE LET id_format == Vals(raw_vals[p], "IdentifierFormat")
            IN /\ tmp_paths' = [tmp_paths EXCEPT ![p] =
                      [i \in 1..Len(template_pairs[p]) |->
                          [content |-> RenderFile(
                                           templates[template_pairs[p][i]],
                                           RenderValues(p), id_format),
                           mtime |-> now]]]
               /\ input_errors' = [input_errors EXCEPT ![p] =
                      AllErrors(template_pairs[p], RenderValues(p),
                                id_format)]
               /\ Goto(p, "validate")
               /\ UNCHANGED <<world, lock, raw_vals, info_vals,
                              overwrite_source, template_pairs,
                              config_values, config_name, wrote>>

\* A check that lets every batch pass.
Accepts_Any(p) == TRUE

\* "if input_errors:" is false.
Accepts(p) == input_errors[p] = <<>>

\* "if input_errors: raise InputError(*input_errors)"
SyncValidate(p) ==
    /\ pc[p] = "validate"
    /\ IF ~Accepts(p)
       THEN Exit(p, "InputError: identifiers")
       ELSE /\ Goto(p, "publish")
            /\ UNCHANGED <<lock, locals>>
    /\ UNCHANGED world

\* One round of the loop over zip(tmp_paths, template_pairs): the os.rename
\* of shutil.move puts the temporary file, with its modification time, at
\* source_path.
SyncPublish(p) ==
    /\ pc[p] = "publish"
    /\ Cardinality(wrote[p]) < Len(template_pairs[p])
    /\ LET i == Cardinality(wrote[p]) + 1
           t == template_pairs[p][i]
       IN /\ source' = [source EXCEPT ![t] =
                 File(tmp_paths[p][i].content, tmp_paths[p][i].mtime)]
          /\ wrote' = [wrote EXCEPT ![p] = @ \cup {t}]
    /\ UNCHANGED <<now, lock, env, selected, link, info, runs, committed,
                   stable, pc, cmd, result, stdout, raw_vals, info_vals,
                   overwrite_source, template_pairs, config_values, tmp_paths,
                   input_errors, config_name>>

\* One round of the same loop when os.rename raises OSError, the temporary
\* directory (tempfile's default, /tmp) and source_path being on two file
\* systems: shutil.move falls back to copy2, which opens source_path for
\* writing.
SyncCopyOpen(p) ==
    /\ pc[p] = "publish"
    /\ Cardinality(wrote[p]) < Len(template_pairs[p])
    /\ LET t == template_pairs[p][Cardinality(wrote[p]) + 1]
       IN /\ source' = [source EXCEPT ![t] = File(<<>>, now)]
          /\ wrote' = [wrote EXCEPT ![p] = @ \cup {t}]
    /\ Goto(p, "copy")
    /\ UNCHANGED <<now, lock, env, selected, link, info, runs, committed,
                   stable, raw_vals, info_vals, overwrite_source,
                   template_pairs, config_values, tmp_paths, input_errors,
                   config_name>>

\* copy2 writes the text and copies the modification time of the
\* temporary file, which shutil.move then unlinks.
SyncCopyWrite(p) ==
    /\ pc[p] = "copy"
    /\ LET i == Cardinality(wrote[p])
           t == template_pairs[p][i]
       IN source' = [source EXCEPT ![t] =
              File(tmp_paths[p][i].content, tmp_paths[p][i].mtime)]
    /\ Goto(p, "publish")
    /\ UNCHANGED <<now, lock, env, selected, link, info, runs, committed,
                   stable, locals>>

\* A sync that stores the LastSync it read.
NewLastSync_Kept(p) == info_vals[p].LastSync

\* The time.time() the sync stores as LastSync when it has published.
NewLastSync(p) == now

\* self.info_file.vals["LastSync"] = time.time(), and the open(path, "w")
\* of JSONFile.write, which truncates info.json.
SyncPersistOpen(p) ==
    /\ pc[p] = "publish"
    /\ Cardinality(wrote[p]) = Len(template_pairs[p])
    /\ info_vals' = [info_vals EXCEPT ![p] = [LastSync |-> NewLastSync(p)]]
    /\ info' = InfoTruncated
    /\ Goto(p, "dump")
    /\ UNCHANGED <<now, lock, env, selected, link, source, runs, committed,
                   stable, raw_vals, overwrite_source, template_pairs,
                   config_values, tmp_paths, input_errors, config_name, wrote>>

\* json.dump and the close of info.json; main() returns.
SyncPersistDump(p) ==
    /\ pc[p] = "dump"
    /\ info' = InfoFile(info_vals[p].LastSync)
    /\ committed' = info'
    /\ stable' = [valid |-> TRUE, overwrite |-> cmd[p].overwrite,
                  text |-> [t \in Templates |-> Text(source[t])]]
    /\ Exit(p, "Persisted")
    /\ UNCHANGED <<now, env, selected, link, source, runs>>

(***************************************************************************)
(* RoleCommand.main                                                        *)
(***************************************************************************)
\* RoleCommand(role_name, config_name): __init__ gives the config name
\* its extension, main() starts with self.lock()
RoleLock(p, c) ==
    /\ pc[p] = "start"
    /\ IF BindSucceeds
       THEN /\ lock' = p
            /\ pc' = [pc EXCEPT ![p] = "rcheck"]
            /\ cmd' = [cmd EXCEPT ![p] = c]
            /\ config_name' = [config_name EXCEPT ![p] =
                   IF c.config_name # NoArg
                   THEN add_ext(c.config_name, CONFIG_EXT) ELSE NoArg]
            /\ UNCHANGED <<result, stdout, raw_vals, info_vals,
                           overwrite_source, template_pairs, config_values,
                           tmp_paths, input_errors, wrote>>
       ELSE Exit(p, "StatusError: locked")
    /\ makedirs

\* A check that takes any name for a role.
RoleExists_Any(role_name) == TRUE

\* os.path.isdir(self.role_path)
RoleExists(role_name) == role_name = RoleName

\* role_configs: the names of the role's files that end with CONFIG_EXT.
RoleConfigs == {f \in DOMAIN RoleFiles : EndsWith(f, CONFIG_EXT)}

\* A switch that does not look the name up.
InRoleConfigs_Any(name) == TRUE

\* "self.config_name not in role_configs" is false.
InRoleConfigs(name) == name \in RoleConfigs

\* os.readlink of the role's symlink: the text of the link, whether or
\* not the file it names exists; FileNotFoundError without a symlink.
Readlink == link

\* The order of str, for the characters of file names.
Alphabet == <<"-", ".", "1", "2", "3", "4", "5", "_", "a", "b", "c", "d",
              "e", "f", "g", "m", "n", "o", "q", "r", "s", "u", "v", "z">>

Rank(ch) == CHOOSE i \in 1..Len(Alphabet) : Alphabet[i] = ch

RECURSIVE StrLess(_, _)
StrLess(x, y) ==
    IF y = <<>> THEN FALSE
    ELSE IF x = <<>> THEN TRUE
    ELSE IF Head(x) = Head(y) THEN StrLess(Tail(x), Tail(y))
    ELSE Rank(Head(x)) < Rank(Head(y))

\* sorted(names)
RECURSIVE Sorted(_)
Sorted(names) ==
    IF names = {} THEN <<>>
    ELSE LET least == CHOOSE x \in names :
                          \A y \in names \ {x} : StrLess(x, y)
         IN <<least>> \o Sorted(names \ {least})

\* table_data of the listing of all roles: the heading, and for the one
\* directory of CONFIG_DIR its name and selected_config.
TableData ==
    << << <<"Role">>, <<"Selected Config">> >>,
       << RoleName,
          IF Readlink = NoLink THEN <<>>
          ELSE rm_ext(Readlink[2], CONFIG_EXT) >> >>

\* The lines the listing of one role prints: "* " before the config whose
\* name is the base name of the symlink's text, "  " before the others.
RoleListing ==
    LET names == Sorted(RoleConfigs)
    IN [i \in 1..Len(names) |->
           << IF Readlink # NoLink /\ Readlink[2] = names[i]
              THEN "* " ELSE "  ",
              rm_ext(names[i], CONFIG_EXT) >>]

\* The destination os.symlink gives the role's pointer.
SymlinkDestination(name) == RolePath(name)

\* main() up to the switch: the two listings return without a change, an
\* unknown role or config raises InputError.
RoleCheck(p) ==
    /\ pc[p] = "rcheck"
    /\ IF cmd[p].role_name = NoArg THEN ExitWith(p, "ok", TableData)
       ELSE IF ~RoleExists(cmd[p].role_name)
            THEN Exit(p, "InputError: no such role")
       ELSE IF config_name[p] = NoArg THEN ExitWith(p, "ok", RoleListing)
       ELSE IF ~InRoleConfigs(config_name[p])
            THEN Exit(p, "InputError: no such config")
       ELSE /\ Goto(p, "rremove")
            /\ UNCHANGED <<lock, locals>>
    /\ UNCHANGED world

\* os.remove(self.role_path + CONFIG_EXT), FileNotFoundError ignored.
RoleRemove(p) ==
    /\ pc[p] = "rremove"
    /\ link' = NoLink
    /\ stable' = Unstable
    /\ Goto(p, "rsymlink")
    /\ UNCHANGED <<now, lock, env, selected, info, source, runs, committed,
                   locals>>

\* os.symlink(...)
RoleSymlink(p) ==
    /\ pc[p] = "rsymlink"
    /\ link' = SymlinkDestination(config_name[p])
    /\ stable' = Unstable
    /\ Goto(p, "rprint")
    /\ UNCHANGED <<now, lock, env, selected, info, source, runs, committed,
                   locals>>

\* print("Switched ...") and the return from main().
RolePrint(p) ==
    /\ pc[p] = "rprint"
    /\ selected' = config_name[p]
    /\ Exit(p, "ok")
    /\ UNCHANGED <<now, env, link, info, source, runs, committed, stable>>

(***************************************************************************)
(* ProgramConfigFile.check_all, the validation of settings.conf.           *)
(***************************************************************************)
true_vals == { <<"y", "e", "s">>, <<"t", "r", "u", "e">> }
false_vals == { <<"n", "o">>, <<"f", "a", "l", "s", "e">> }
_all_keys == { <<"IdentifierFormat">>, <<"OverwriteAlways">> }
_bool_keys == { <<"OverwriteAlways">> }

\* str.lower(), for the letters of the boolean tokens.
UpperCase == <<"A", "E", "F", "L", "N", "O", "R", "S", "T", "U", "Y">>
LowerCase == <<"a", "e", "f", "l", "n", "o", "r", "s", "t", "u", "y">>

lower(value) ==
    [i \in 1..Len(value) |->
        IF \E j \in 1..Len(UpperCase) : UpperCase[j] = value[i]
        THEN LowerCase[CHOOSE j \in 1..Len(UpperCase) :
                           UpperCase[j] = value[i]]
        ELSE value[i]]

\* _check_value: the error message, or NoMessage for the None it returns.
NoMessage == "None"

_check_value(key, value) ==
    IF key \in _bool_keys /\ lower(value) \notin true_vals \cup false_vals
    THEN "must have a boolean value"
    ELSE IF key # <<"IdentifierFormat">> THEN NoMessage
    ELSE IF value = <<>> THEN "must not be blank"
    ELSE IF Cardinality(Occurrences(value, PLACEHOLDER)) < 1
         THEN "must contain the variable '%s'"
    ELSE IF Cardinality(Occurrences(value, PLACEHOLDER)) > 1
         THEN "must not contain more than one instance of '%s'"
    ELSE NoMessage

\* parse_errors of check_all(): the unrecognized keys and the keys whose
\* value has a message.
check_all(vals) ==
    {<<key, "unrecognized option">> : key \in DOMAIN vals \ _all_keys}
    \cup {<<key, _check_value(key, vals[key])>> :
             key \in {k \in DOMAIN vals :
                         _check_value(k, vals[k]) # NoMessage}}

\* ProgramData.overwrite_always: True, False, or the None of a getter that
\* falls off its end.
overwrite_always(vals) ==
    LET raw_value == Vals(vals, "OverwriteAlways")
    IN IF raw_value \in true_vals THEN "True"
       ELSE IF raw_value \in false_vals THEN "False"
       ELSE "None"

(***************************************************************************)
(* RmTemplateCommand.main, for one file. It does not call self.lock().     *)
(***************************************************************************)
RmTemplateCommands ==
    [kind : {"rm-template"}, file : Templates, leave_options : BOOLEAN]

\* self.data.read(), and self.data.generate() when info.json is missing:
\* ProgramData.read checks settings.conf with check_all, generate writes
\* info.json with last_sync = time.time().
RmTemplateRead(p, c) ==
    /\ pc[p] = "start"
    /\ IF check_all(ReadLines(settings, EmptyDict)) # {}
       THEN /\ Exit(p, "FileParseError: settings")
            /\ makedirs
       ELSE IF info.state = "truncated"
       THEN /\ Exit(p, "JSONDecodeError")
            /\ makedirs
       ELSE /\ info' = IF info.state = "absent" THEN InfoFile(now) ELSE info
            /\ committed' = IF info.state = "absent" THEN info'
                             ELSE committed
            /\ templates_dir' = TRUE
            /\ pc' = [pc EXCEPT ![p] = "rmremove"]
            /\ cmd' = [cmd EXCEPT ![p] = c]
            /\ UNCHANGED <<now, lock, settings, priority, templates,
                           re_escape, event, spawned, notifier, selected,
                           link, source, runs, stable, result, stdout,
                           locals>>

\* "while True: os.rmdir(parent_dir)" from the directory of the template
\* upwards, until an OSError. The templates lie directly in TEMPLATES_DIR:
\* it is removed when no file is left in it, and the os.rmdir of
\* PROGRAM_DIR, which holds settings.conf, fails and ends the loop.
RmdirParents(left) == templates_dir /\ left # {}

\* The loop over self.files: os.remove(template.path), InputError when
\* there is no such template, then the os.rmdir of the parents.
RmTemplateRemove(p) ==
    /\ pc[p] = "rmremove"
    /\ IF templates[cmd[p].file] = RemovedFile
       THEN /\ Exit(p, "InputError: no template")
            /\ UNCHANGED world
       ELSE /\ templates' = [templates EXCEPT ![cmd[p].file] = RemovedFile]
            /\ templates_dir' = RmdirParents(Listed \ {cmd[p].file})
            /\ stable' = Unstable
            /\ IF cmd[p].leave_options THEN Exit(p, "ok")
               ELSE /\ Goto(p, "rmoptions")
                    /\ UNCHANGED <<lock, locals>>
            /\ UNCHANGED <<now, settings, priority, re_escape, selected,
                           event, spawned, notifier, link, info, source,
                           runs, committed>>

\* "if not self.leave_options:": get_templates() scans TEMPLATES_DIR and
\* the identifiers of the templates are read; then
\* self.user_files.get_configs(enter_roles=True) is called, and
\* UserFiles.get_configs takes no such argument: the TypeError ends the
\* command before a config file is opened.
RmTemplateOptions(p) ==
    /\ pc[p] = "rmoptions"
    /\ IF ~templates_dir
       THEN Exit(p, "FileNotFoundError: templates")
       ELSE Exit(p, "TypeError: enter_roles")
    /\ UNCHANGED world

(***************************************************************************)
(* The user.                                                               *)
(***************************************************************************)
\* The user writes a source file with an editor.
UserEdit(t) ==
    /\ source[t].kind # "dir"
    /\ now < MaxTime
    /\ now' = now + 1
    /\ source' = [source EXCEPT ![t] = File(UserText, now')]
    /\ stable' = Unstable
    /\ UNCHANGED <<lock, env, selected, link, info, runs, committed, pc, cmd,
                   result, stdout, locals>>

\* os.path.isfile of the path rel below HOME_DIR.
IsSourceFile(rel) ==
    \E t \in Templates :
        rel = <<TemplateFileName(t)>> /\ source[t].kind = "file"

\* A handler that starts a sync for every template.
SourceFileExists_Any(e) == TRUE

\* os.path.isfile(source_path) in Daemon._sync
SourceFileExists(e) == IsSourceFile(relpath(Pathname(e), TEMPLATES_DIR))

\* valid_file of Daemon._sync
valid_file(e) ==
    IF commonpath(e.path, TEMPLATES_DIR) = TEMPLATES_DIR
    THEN SourceFileExists(e)
    ELSE IF /\ commonpath(e.path, CONFIG_DIR) = CONFIG_DIR
            /\ EndsWith(e.name, CONFIG_EXT)
         THEN TRUE
         ELSE Pathname(e) = PRIORITY_FILE

\* Daemon._sync(event): the Popen of "codot --debug sync" for a valid file;
\* the handler returns when the sync has ended.
DaemonSync(e) ==
    /\ UNCHANGED templates_dir
    /\ event' = e
    /\ IF ~e.dir /\ e.maskname = "IN_CLOSE_WRITE" /\ valid_file(e)
       THEN spawned < MaxRuns /\ spawned' = spawned + 1
       ELSE spawned' = spawned
    /\ UNCHANGED <<now, lock, settings, priority, templates, re_escape,
                   selected, link, notifier, info, source, runs, committed,
                   stable, pc, cmd, result, stdout, locals>>

(***************************************************************************)
(* The user's editor on the priority file and on settings.conf, which no   *)
(* lock keeps away while a command runs.                                   *)
(***************************************************************************)
\* The priority file with the lines "r", " ", "d.conf", or with "d.conf".
PriorityEdits ==
    { << RoleName, <<" ">>, <<"d">> \o CONFIG_EXT >>,
      << <<"d">> \o CONFIG_EXT >> }

SettingsEdits ==
    { FormatSettings(<<"{", "{", "%", "s", "}", "}">>),
      FormatSettings(<<"$", "{", "%", "s", "}">>) }

UserWritesPriority(lines) ==
    /\ UNCHANGED templates_dir
    /\ priority # lines
    /\ priority' = lines
    /\ stable' = Unstable
    /\ UNCHANGED <<now, lock, settings, templates, re_escape, selected, event,
                   spawned, notifier, link, info, source, runs, committed, pc,
                   cmd, result, stdout, locals>>

UserWritesSettings(lines) ==
    /\ UNCHANGED templates_dir
    /\ settings # lines
    /\ settings' = lines
    /\ stable' = Unstable
    /\ UNCHANGED <<now, lock, priority, templates, re_escape, selected, event,
                   spawned, notifier, link, info, source, runs, committed, pc,
                   cmd, result, stdout, locals>>

\* notifier.loop(): the daemon alone, one event after the other.
NextDaemon == \E e \in Events : DaemonSync(e)

SpecDaemon == Init /\ [][NextDaemon]_vars

Next ==
    \/ \E p \in Procs : Start(p)
    \/ \E p \in Procs : Kill(p)
    \/ \E p \in Procs, c \in SyncCommands : SyncLock(p, c)
    \/ \E p \in Procs : SyncRead(p)
    \/ \E p \in Procs : SyncDiscover(p)
    \/ \E p \in Procs : SyncMerge(p)
    \/ \E p \in Procs : SyncRender(p)
    \/ \E p \in Procs : SyncValidate(p)
    \/ \E p \in Procs : SyncPublish(p)
    \/ \E p \in Procs : SyncCopyOpen(p)
    \/ \E p \in Procs : SyncCopyWrite(p)
    \/ \E p \in Procs : SyncPersistOpen(p)
    \/ \E p \in Procs : SyncPersistDump(p)
    \/ \E p \in Procs, c \in RoleCommands : RoleLock(p, c)
    \/ \E p \in Procs : RoleCheck(p)
    \/ \E p \in Procs : RoleRemove(p)
    \/ \E p \in Procs : RoleSymlink(p)
    \/ \E p \in Procs : RolePrint(p)
    \/ \E t \in Templates : UserEdit(t)

Spec == Init /\ [][Next]_vars

\* The syncs alone.
NextSync ==
    \/ \E p \in Procs : Start(p)
    \/ \E p \in Procs, c \in SyncCommands : SyncLock(p, c)
    \/ \E p \in Procs : SyncRead(p)
    \/ \E p \in Procs : SyncDiscover(p)
    \/ \E p \in Procs : SyncMerge(p)
    \/ \E p \in Procs : SyncRender(p)
    \/ \E p \in Procs : SyncValidate(p)
    \/ \E p \in Procs : SyncPublish(p)
    \/ \E p \in Procs : SyncCopyOpen(p)
    \/ \E p \in Procs : SyncCopyWrite(p)
    \/ \E p \in Procs : SyncPersistOpen(p)
    \/ \E p \in Procs : SyncPersistDump(p)

SpecRender == InitRender /\ [][NextSync]_vars

\* The process p, started and not ended, executes: its position or the set
\* of files it has moved changes. main() waits for nothing, the lock is a
\* bind() that fails at once.
Executes(p) ==
    /\ pc[p] \notin {"idle", "done"}
    /\ \E at \in {"read", "discover", "merge", "render", "validate",
                   "publish", "copy", "dump", "done"} :
          \E moved \in SUBSET Templates :
              /\ pc' = [pc EXCEPT ![p] = at]
              /\ wrote' = [wrote EXCEPT ![p] = moved]
              /\ at # pc[p] \/ moved # wrote[p]

\* One program directory for the syncs to run to their end in: t1 holds
\* "<a> <c>", t2 "x<c>-<a>", "<e> <c>" or cannot be read.
InitFair ==
    /\ settings = FormatSettings(<<"{", "{", "%", "s", "}", "}">>)
    /\ priority = << RoleName, <<"d">> >>
    /\ templates \in
          [Templates ->
              {FileText(<<LineAC>>, <<"{", "{", "%", "s", "}", "}">>),
               FileText(<<LineCA>>, <<"{", "{", "%", "s", "}", "}">>),
               FileText(<<LineEC>>, <<"{", "{", "%", "s", "}", "}">>),
               UnreadableFile}]
    /\ templates["t1"] = FileText(<<LineAC>>, <<"{", "{", "%", "s", "}", "}">>)
    /\ templates["t2"] # templates["t1"]
    /\ re_escape = "all"
    /\ link = RolePath(<<"v">> \o CONFIG_EXT)
    /\ info = InfoFile(1)
    /\ source = [t \in Templates |-> File(<<>>, 1)]
    /\ selected = NoArg
    /\ AtRest

\* The command lines that switch the role r.
SwitchCommands ==
    [kind : {"role"}, role_name : {RoleName},
     config_name : {<<"s">>, <<"z">>}]

\* The program directory when "codot role r s" has completed.
InitRole ==
    /\ settings = FormatSettings(<<"{", "{", "%", "s", "}", "}">>)
    /\ priority = << RoleName, <<"d">> >>
    /\ templates = TemplateText
    /\ re_escape \in EscapeKinds
    /\ link = RolePath(<<"s">> \o CONFIG_EXT)
    /\ selected = <<"s">> \o CONFIG_EXT
    /\ info = InfoFile(1)
    /\ source \in [Templates -> {Absent, File(<<>>, 1)}]
    /\ AtRest

\* Syncs and switches of the role, which a signal may end.
NextRole ==
    \/ NextSync
    \/ \E p \in Procs : Kill(p)
    \/ \E p \in Procs, c \in SwitchCommands : RoleLock(p, c)
    \/ \E p \in Procs : RoleCheck(p)
    \/ \E p \in Procs : RoleRemove(p)
    \/ \E p \in Procs : RoleSymlink(p)
    \/ \E p \in Procs : RolePrint(p)

SpecRole == InitRole /\ [][NextRole]_vars

\* The program directory for syncs and removals of templates.
InitTemplates ==
    /\ settings = FormatSettings(<<"{", "{", "%", "s", "}", "}">>)
    /\ priority = << RoleName, <<"d">> >>
    /\ templates =
          [t \in Templates |->
              FileText(<<IF t = "t1" THEN LineAC ELSE LineCA>>,
                       <<"{", "{", "%", "s", "}", "}">>)]
    /\ re_escape \in EscapeKinds
    /\ link = RolePath(<<"v">> \o CONFIG_EXT)
    /\ selected = NoArg
    /\ info \in {InfoAbsent, InfoFile(1)}
    /\ source \in [Templates -> {Absent, File(<<>>, 1)}]
    /\ AtRest

\* Syncs and removals of templates, which a signal may end.
NextTemplates ==
    \/ NextSync
    \/ \E p \in Procs : Kill(p)
    \/ \E p \in Procs, c \in RmTemplateCommands : RmTemplateRead(p, c)
    \/ \E p \in Procs : RmTemplateRemove(p)
    \/ \E p \in Procs : RmTemplateOptions(p)

SpecTemplates == InitTemplates /\ [][NextTemplates]_vars

\* The values settings.conf gives OverwriteAlways: the four tokens, two
\* of them also with capitals, a number, and no line at all.
OverwriteValues ==
    { <<"y", "e", "s">>, <<"Y", "e", "s">>, <<"t", "r", "u", "e">>,
      <<"n", "o">>, <<"N", "O">>, <<"f", "a", "l", "s", "e">>, <<"1">> }

InitSettings ==
    /\ settings \in
          {<<>>} \cup {<< <<"OverwriteAlways", "=">> \o v >> :
                          v \in OverwriteValues}
    /\ priority = << RoleName, <<"d">> >>
    /\ templates = TemplateText
    /\ re_escape = "all"
    /\ link = RolePath(<<"z">> \o CONFIG_EXT)
    /\ selected = NoArg
    /\ info = InfoFile(1)
    /\ source \in [Templates -> {File(<<>>, 1), File(UserText, 2)}]
    /\ AtRest

SpecSettings == InitSettings /\ [][NextSync]_vars

\* The role's symlink after the user has renamed the role q, with its
\* symlink, to r: its text still names q/s.conf, which is no file now.
RenamedLink == << <<"q">>, <<"s">> \o CONFIG_EXT >>

\* The config directory before the listings: the role has no symlink, one
\* to a config of its own, or one whose file does not exist.
InitList ==
    /\ settings = FormatSettings(<<"{", "{", "%", "s", "}", "}">>)
    /\ priority = << RoleName, <<"d">> >>
    /\ templates = TemplateText
    /\ re_escape = "all"
    /\ link \in {NoLink, DanglingLink, RenamedLink}
                \cup {RolePath(f) : f \in RoleConfigs}
    /\ selected = NoArg
    /\ info = InfoFile(1)
    /\ source = [t \in Templates |-> File(<<>>, 1)]
    /\ AtRest

\* The role commands: the listings and the switches.
NextList ==
    \/ \E p \in Procs : Start(p)
    \/ \E p \in Procs, c \in RoleCommands : RoleLock(p, c)
    \/ \E p \in Procs : RoleCheck(p)
    \/ \E p \in Procs : RoleRemove(p)
    \/ \E p \in Procs : RoleSymlink(p)
    \/ \E p \in Procs : RolePrint(p)

SpecList == InitList /\ [][NextList]_vars

\* Lines of a flat config file: "a=1", " a = 2 ", "a==3", "#a=4", " # c",
\* "b", "", "=5", "c=".
ConfigLines ==
    { <<"a", "=", "1">>, <<" ", "a", " ", "=", " ", "2", " ">>,
      <<"a", "=", "=", "3">>, <<"#", "a", "=", "4">>, <<" ", "#", " ", "c">>,
      <<"b">>, <<>>, <<"=", "5">>, <<"c", "=">> }

\* settings.conf, which ConfigFile.read parses as it does every flat
\* config file, with up to two of these lines.
InitConfig ==
    /\ settings \in {<<>>} \cup {<<l>> : l \in ConfigLines}
                    \cup {<<l, m>> : l \in ConfigLines, m \in ConfigLines}
    /\ priority = << RoleName, <<"d">> >>
    /\ templates = TemplateText
    /\ re_escape = "all"
    /\ link = RolePath(<<"z">> \o CONFIG_EXT)
    /\ selected = NoArg
    /\ info = InfoFile(1)
    /\ source = [t \in Templates |-> File(<<>>, 1)]
    /\ AtRest

SpecConfig == InitConfig /\ [][NextSync]_vars

\* The syncs, which a signal may end.
NextFair ==
    \/ NextSync
    \/ \E p \in Procs : Kill(p)

\* The system runs a process that can run.
SpecFair ==
    /\ InitFair
    /\ [][NextFair]_vars
    /\ \A p \in Procs : WF_<<pc, wrote>>(Executes(p))

\* The syncs together with the user's editor on the files they read.
NextEdits ==
    \/ NextSync
    \/ \E lines \in PriorityEdits : UserWritesPriority(lines)
    \/ \E lines \in SettingsEdits : UserWritesSettings(lines)

SpecEdits == InitEdits /\ [][NextEdits]_vars

SpecInputs == InitInputs /\ [][Next]_vars

(***************************************************************************)
(* The daemon beside the shell: the user's editor closes the priority      *)
(* file, inotify queues the event, notifier.loop() hands one event after   *)
(* the other to Daemon._sync, and _sync waits for the sync it started.     *)
(***************************************************************************)
\* IN_CLOSE_WRITE on the priority file.
PriorityEvent ==
    [path |-> PROGRAM_DIR, name |-> <<"p", "r", "i", "o", "r", "i", "t", "y">>,
     dir |-> FALSE, maskname |-> "IN_CLOSE_WRITE"]

\* The priority file as the user saves it: "r", "d" or "r", " ", "d.conf".
WatchedEdits ==
    { << RoleName, <<"d">> >>, << RoleName, <<" ">>, <<"d">> \o CONFIG_EXT >> }

\* ["codot", "--debug", "sync"]
DaemonCommand == [kind |-> "sync", overwrite |-> FALSE]

\* "codot role r": the listing of the role's configs.
ListCommand == [kind |-> "role", role_name |-> RoleName, config_name |-> NoArg]

\* The user saves the priority file and the kernel queues the event for
\* the watch on PROGRAM_DIR. The daemon can start a sync for every event
\* queued: the writes count towards the invocations.
CloseWritePriority(lines) ==
    /\ UNCHANGED templates_dir
    /\ priority # lines
    /\ runs + Len(notifier.events) < MaxRuns
    /\ priority' = lines
    /\ stable' = Unstable
    /\ notifier' = [notifier EXCEPT !.events = Append(@, PriorityEvent)]
    /\ UNCHANGED <<now, lock, settings, templates, re_escape, selected, event,
                   spawned, link, info, source, runs, committed, pc, cmd,
                   result, stdout, locals>>

\* A handler that returns as soon as the sync is started.
Waited_Never(p) == TRUE

\* "for line in cmd.stderr" ends when the child has closed stderr and
\* cmd.wait() returns when it has exited.
Waited(p) == pc[p] = "done"

\* The handler is not running: notifier.loop() calls _sync for the next
\* event only when the call for the one before has returned.
InLoop == IF notifier.cmd = NoProc THEN TRUE ELSE Waited(notifier.cmd)

\* Daemon._sync(event) up to the Popen: an event that is not about a valid
\* file is dropped, for any other the sync is started in a new process.
DaemonPopen ==
    /\ UNCHANGED templates_dir
    /\ InLoop
    /\ notifier.events # <<>>
    /\ LET e == Head(notifier.events)
       IN /\ event' = e
          /\ IF ~e.dir /\ e.maskname = "IN_CLOSE_WRITE" /\ valid_file(e)
             THEN \E p \in Procs :
                     /\ pc[p] \in {"idle", "done"}
                     /\ runs < MaxRuns
                     /\ runs' = runs + 1
                     /\ spawned' = spawned + 1
                     /\ pc' = [pc EXCEPT ![p] = "start"]
                     /\ result' = [result EXCEPT ![p] = "running"]
                     /\ stdout' = [stdout EXCEPT ![p] = <<>>]
                     /\ notifier' =
                            [events |-> Tail(notifier.events), cmd |-> p,
                             popened |-> notifier.popened \cup {p}]
             ELSE /\ notifier' =
                         [notifier EXCEPT !.events = Tail(@), !.cmd = NoProc]
                  /\ UNCHANGED <<runs, spawned, pc, result, stdout>>
    /\ UNCHANGED <<now, lock, settings, priority, templates, re_escape,
                   selected, link, info, source, committed, stable, cmd,
                   locals>>

\* cmd.wait() has returned and with it _sync.
DaemonReturns ==
    /\ UNCHANGED templates_dir
    /\ notifier.cmd # NoProc
    /\ Waited(notifier.cmd)
    /\ notifier.events = <<>>
    /\ notifier' = [notifier EXCEPT !.cmd = NoProc]
    /\ UNCHANGED <<now, lock, settings, priority, templates, re_escape,
                   selected, event, spawned, link, info, source, runs,
                   committed, stable, pc, cmd, result, stdout, locals>>

\* The user's shell starts the program in a process of its own.
ShellStart(p) ==
    /\ p \notin notifier.popened
    /\ runs + Len(notifier.events) < MaxRuns
    /\ Start(p)

\* The program directory the daemon watches: every identifier of the
\* templates has a value under either text of the priority file.
InitWatch ==
    /\ settings = FormatSettings(<<"{", "{", "%", "s", "}", "}">>)
    /\ priority = << RoleName, <<"d">> >>
    /\ templates = TemplateText
    /\ re_escape = "all"
    /\ link = RolePath(<<"z">> \o CONFIG_EXT)
    /\ selected = NoArg
    /\ info = InfoFile(1)
    /\ source \in [Templates -> {Absent, File(<<>>, 1)}]
    /\ AtRest

\* The daemon's syncs, and listings of the role started from the shell.
NextWatch ==
    \/ \E lines \in WatchedEdits : CloseWritePriority(lines)
    \/ DaemonPopen
    \/ DaemonReturns
    \/ \E p \in Procs : ShellStart(p)
    \/ \E p \in Procs : p \in notifier.popened /\ SyncLock(p, DaemonCommand)
    \/ \E p \in Procs : p \notin notifier.popened /\ RoleLock(p, ListCommand)
    \/ \E p \in Procs : RoleCheck(p)
    \/ \E p \in Procs : SyncRead(p)
    \/ \E p \in Procs : SyncDiscover(p)
    \/ \E p \in Procs : SyncMerge(p)
    \/ \E p \in Procs : SyncRender(p)
    \/ \E p \in Procs : SyncValidate(p)
    \/ \E p \in Procs : SyncPublish(p)
    \/ \E p \in Procs : SyncCopyOpen(p)
    \/ \E p \in Procs : SyncCopyWrite(p)
    \/ \E p \in Procs : SyncPersistOpen(p)
    \/ \E p \in Procs : SyncPersistDump(p)

\* The daemon runs: it handles an event it has read, and it returns from
\* wait() when its child has exited.
Notifies ==
    /\ InLoop
    /\ \/ /\ notifier.events # <<>>
          /\ runs < MaxRuns
          /\ \E p \in Procs : pc[p] \in {"idle", "done"}
          /\ \E p \in Procs \cup {NoProc} :
                notifier' =
                    [events |-> Tail(notifier.events), cmd |-> p,
                     popened |-> notifier.popened \cup (Procs \cap {p})]
       \/ /\ notifier.events = <<>>
          /\ notifier.cmd # NoProc
          /\ notifier' = [notifier EXCEPT !.cmd = NoProc]

\* The system runs the daemon and every process that can run; when the
\* user writes or starts a command is up to the user.
SpecWatch ==
    /\ InitWatch
    /\ [][NextWatch]_vars
    /\ WF_notifier(Notifies)
    /\ \A p \in Procs : WF_<<pc, wrote>>(Executes(p))

TypeOK ==
    /\ lock \in Procs \cup {NoProc}
    /\ notifier.cmd \in Procs \cup {NoProc}
    /\ notifier.popened \subseteq Procs
    /\ now \in 0..MaxTime
    /\ runs \in 0..MaxRuns

(***************************************************************************)
(* Definitions the properties share.                                       *)
(***************************************************************************)
\* The source files process p replaces in this step.
Replaces(p) == wrote'[p] \ wrote[p]

\* Process p ends in this step, and not by a signal.
Ends(p) == pc[p] \notin {"idle", "done"} /\ pc'[p] = "done"
           /\ result'[p] # "Killed"

\* The boolean tokens of the settings.
TrueTokens == {<<"y", "e", "s">>, <<"t", "r", "u", "e">>}
FalseTokens == {<<"n", "o">>, <<"f", "a", "l", "s", "e">>}

SettingsNow == ReadLines(settings, EmptyDict)

\* Overwrite is requested, is not requested, by the sync p runs.
OverwriteRequested(p) ==
    /\ cmd[p].kind = "sync"
    /\ \/ cmd[p].overwrite
       \/ /\ <<"OverwriteAlways">> \in DOMAIN SettingsNow
          /\ SettingsNow[<<"OverwriteAlways">>] \in TrueTokens

OverwriteNotRequested(p) ==
    /\ cmd[p].kind = "sync"
    /\ ~cmd[p].overwrite
    /\ \/ <<"OverwriteAlways">> \notin DOMAIN SettingsNow
       \/ SettingsNow[<<"OverwriteAlways">>] \in FalseTokens

\* The file names of the priority file, highest priority first, that name
\* a config that exists (a plain config, or a role with a selection).
EnabledNames ==
    SelectSeq(ConfigPriority(priority),
              LAMBDA n : OpenConfig(n, link) # NoFile)

\* The mapping the i-th enabled config holds.
EnabledSource(i) == ReadLines(OpenConfig(EnabledNames[i], link), EmptyDict)

EnabledKeys == UNION {DOMAIN EnabledSource(i) : i \in 1..Len(EnabledNames)}

\* The identifiers template t references.
TemplateIdentifiers(t, id_format) ==
    UNION {Range(IdentifiersOf(templates[t][n], id_format)) :
              n \in 1..Len(templates[t])}

\* The identifiers of the templates in template_pairs of p that are a key
\* of no enabled config.
Unresolved(p) ==
    UNION {TemplateIdentifiers(template_pairs[p][i],
                               Vals(raw_vals[p], "IdentifierFormat"))
              : i \in 1..Len(template_pairs[p])} \ EnabledKeys

(***************************************************************************)
(* C1. Staleness protection: a sync for which overwrite is not requested   *)
(* (no overwrite argument, OverwriteAlways unset or a false-token) neither *)
(* puts in template_pairs nor replaces a source file whose modification    *)
(* time is greater than the stored last_sync; a sync for which overwrite   *)
(* is requested and that completes has replaced every source file that    *)
(* has a template.                                                         *)
(***************************************************************************)
C1_StalenessProtection ==
    [][\A p \in Procs :
          /\ (OverwriteNotRequested(p) /\ pc[p] = "discover"
              /\ pc'[p] = "merge") =>
                \A t \in Range(template_pairs'[p]) :
                    ~(source[t].kind = "file"
                      /\ source[t].mtime > info.LastSync)
          /\ OverwriteNotRequested(p) =>
                \A t \in Replaces(p) :
                    ~(source[t].kind = "file"
                      /\ source[t].mtime > info.LastSync)
          /\ (OverwriteRequested(p) /\ Ends(p) /\ result'[p] = "Persisted")
                => \A t \in Templates :
                       source[t].kind = "file" => t \in wrote[p]]_vars

(***************************************************************************)
(* C2. All-or-nothing validation: when a template of template_pairs        *)
(* references an identifier that is a key of no enabled config, the sync   *)
(* replaces no source file, and ends with the InputError that names the    *)
(* identifier.                                                             *)
(***************************************************************************)
C2_AllOrNothingValidation ==
    [][\A p \in Procs :
          (cmd[p].kind = "sync" /\ Unresolved(p) # {}) =>
             /\ Replaces(p) = {}
             /\ Ends(p) =>
                   /\ result'[p] = "InputError: identifiers"
                   /\ Unresolved(p) \subseteq Range(input_errors[p])]_vars

(***************************************************************************)
(* C3. last_sync changes only in a step of a sync that has replaced every  *)
(* source file of its template_pairs, and when a process ends other than   *)
(* by completing a sync (an error, a signal) info.json holds what the last *)
(* completed write left in it.                                             *)
(***************************************************************************)
C3_LastSyncOnlyAfterSuccess ==
    [][/\ info' # info =>
             \E p \in Procs :
                 /\ cmd[p].kind = "sync"
                 /\ pc[p] \in {"publish", "dump"}
                 /\ wrote[p] = Range(template_pairs[p])
       /\ \A p \in Procs :
             (pc[p] \notin {"idle", "done"} /\ pc'[p] = "done"
              /\ result'[p] # "Persisted") => info' = committed]_vars

(***************************************************************************)
(* C4. Mutual exclusion with fail-fast: at most one process is past the    *)
(* acquisition of the lock, and it is the holder; a process that finds the *)
(* lock held ends in that very step with StatusError and changes no source *)
(* file, role pointer or info.json.                                        *)
(***************************************************************************)
PastLock(p) == pc[p] \notin {"idle", "done", "start"}

C4_MutualExclusion ==
    /\ [](\A p, q \in Procs : (PastLock(p) /\ PastLock(q)) => p = q)
    /\ [](\A p \in Procs : PastLock(p) => lock = p)
    /\ [][\A p \in Procs :
             (pc[p] = "start" /\ lock # NoProc
              /\ pc'[p] # pc[p] /\ result'[p] # "Killed") =>
                /\ pc'[p] = "done"
                /\ result'[p] = "StatusError: locked"
                /\ source' = source /\ link' = link /\ info' = info]_vars

\* A process holds the lock and the other one was turned away.
C4_Witness ==
    \E p, q \in Procs :
        p # q /\ lock = p /\ PastLock(p) /\ result[q] = "StatusError: locked"

(***************************************************************************)
(* C5. The lock is held only by a running process: whichever way the       *)
(* holder exits (return, error, signal) the lock is free again, and a      *)
(* process that asks for the lock when no other process is running gets    *)
(* it.                                                                     *)
(***************************************************************************)
C5_LockReleasedOnExit ==
    /\ [](\A p \in Procs : lock = p => pc[p] \notin {"idle", "done"})
    /\ [][\A p \in Procs :
             (pc[p] = "start" /\ pc'[p] # pc[p]
              /\ result'[p] # "Killed"
              /\ \A q \in Procs \ {p} : pc[q] \in {"idle", "done"}) =>
                lock' = p]_vars

\* A sync was killed while it held the lock (it had opened info.json for
\* writing), and the next command has the lock.
C5_Witness ==
    \E p, q \in Procs :
        /\ p # q
        /\ pc[p] = "done" /\ result[p] = "Killed"
        /\ info.state = "truncated"
        /\ lock = q /\ PastLock(q)

(***************************************************************************)
(* C6. Priority override: the merge leaves in config_values exactly the    *)
(* keys of the enabled configs, each with the value of the highest-        *)
(* priority (first listed) enabled config that defines it, and the sync    *)
(* renders and publishes with that mapping.                                *)
(***************************************************************************)
Merged(p) == cmd[p].kind = "sync"
             /\ pc[p] \in {"render", "validate", "publish", "copy", "dump"}

C6_PriorityOverride ==
    [][\A p \in Procs :
          /\ (pc[p] = "merge" /\ Merged(p)') =>
                /\ DOMAIN config_values'[p] = EnabledKeys
                /\ \A k \in EnabledKeys :
                      LET first == SetMin({i \in 1..Len(EnabledNames) :
                                              k \in DOMAIN EnabledSource(i)})
                      IN config_values'[p][k] = EnabledSource(first)[k]
          /\ (Merged(p) /\ Merged(p)') =>
                config_values'[p] = config_values[p]]_vars

\* A sync has merged two configs that give one key different values.
C6_Witness ==
    \E p \in Procs :
        /\ Merged(p)
        /\ \E i, j \in 1..Len(EnabledNames) :
              /\ i < j
              /\ \E k \in DOMAIN EnabledSource(i) \cap DOMAIN EnabledSource(j) :
                    EnabledSource(i)[k] # EnabledSource(j)[k]

(***************************************************************************)
(* C7. Missing target skip: a template whose source file does not exist    *)
(* is not put in template_pairs, and no sync creates its source file.      *)
(***************************************************************************)
C7_MissingTargetSkip ==
    [][\A p \in Procs, t \in Templates :
          /\ (pc[p] = "discover" /\ pc'[p] = "merge"
              /\ source[t].kind = "absent")
                => t \notin Range(template_pairs'[p])
          /\ t \in Replaces(p) => source[t].kind # "absent"]_vars

(***************************************************************************)
(* C8. Idempotence: while nothing has been edited since a sync completed,  *)
(* a sync run with the same overwrite argument leaves at every source path *)
(* the text the completed sync left there, and completes too.              *)
(***************************************************************************)
C8_Idempotence ==
    [][\A p \in Procs :
          (stable.valid /\ cmd[p].kind = "sync"
           /\ cmd[p].overwrite = stable.overwrite) =>
             /\ \A t \in Replaces(p) : Text(source'[t]) = stable.text[t]
             /\ (PastLock(p) /\ Ends(p)) => result'[p] = "Persisted"]_vars

(***************************************************************************)
(* C9. A select whose config name is the name of a variant file of the     *)
(* role, with or without the extension, is not refused, and once it has    *)
(* made the symlink the role's pointer is the path of that variant file,   *)
(* whatever the pointer was before.                                        *)
(***************************************************************************)
\* The name, as typed on the command line, names the variant file f.
Names(typed, f) ==
    \/ typed = f
    \/ typed = SubSeq(f, 1, Len(f) - Len(CONFIG_EXT))

NamesVariant(typed) == \E f \in DOMAIN RoleFiles : Names(typed, f)

Selecting(p) == cmd[p].kind = "role" /\ cmd[p].role_name = RoleName
                /\ cmd[p].config_name # NoArg

C9_SelectSetsPointer ==
    /\ [](\A p \in Procs :
             pc[p] = "rprint" =>
                /\ link # NoLink
                /\ link[1] = RoleName
                /\ link[2] \in DOMAIN RoleFiles
                /\ Names(cmd[p].config_name, link[2]))
    /\ [][\A p \in Procs :
             (pc[p] = "rcheck" /\ Selecting(p)
              /\ NamesVariant(cmd[p].config_name)
              /\ pc'[p] # pc[p] /\ result'[p] # "Killed") =>
                pc'[p] = "rremove"]_vars

\* A select given the name without the extension has made the pointer.
C9_Witness ==
    \E p \in Procs :
        /\ pc[p] = "rprint"
        /\ cmd[p].config_name = <<"s">>
        /\ link = RolePath(<<"s">> \o CONFIG_EXT)

(***************************************************************************)
(* C10. A select whose config name names no variant file of the role ends  *)
(* with InputError and never removes or creates the role's pointer.        *)
(***************************************************************************)
C10_SelectUnknownConfig ==
    /\ [](\A p \in Procs :
             (pc[p] \in {"rremove", "rsymlink", "rprint"}) =>
                 NamesVariant(cmd[p].config_name))
    /\ [][\A p \in Procs :
             (pc[p] = "rcheck" /\ Selecting(p)
              /\ ~NamesVariant(cmd[p].config_name)
              /\ pc'[p] # pc[p] /\ result'[p] # "Killed") =>
                /\ pc'[p] = "done"
                /\ result'[p] = "InputError: no such config"
                /\ link' = link]_vars

\* A select of an unknown config was refused and the pointer still is
\* what it was.
C10_Witness ==
    \E p \in Procs :
        /\ result[p] = "InputError: no such config"
        /\ link = RolePath(<<"z">> \o CONFIG_EXT)

(***************************************************************************)
(* C11. A role command, list or select, that names a role with no          *)
(* directory ends with InputError ("no such role") and leaves the role     *)
(* pointer as it was; no command that names such a role reaches the        *)
(* removal or the creation of a pointer.                                   *)
(***************************************************************************)
NamesUnknownRole(p) ==
    cmd[p].kind = "role" /\ cmd[p].role_name \notin {NoArg, RoleName}

C11_UnknownRole ==
    /\ [](\A p \in Procs :
             pc[p] \in {"rremove", "rsymlink", "rprint"} =>
                 ~NamesUnknownRole(p))
    /\ [][\A p \in Procs :
             (pc[p] = "rcheck" /\ NamesUnknownRole(p)
              /\ pc'[p] # pc[p] /\ result'[p] # "Killed") =>
                /\ pc'[p] = "done"
                /\ result'[p] = "InputError: no such role"
                /\ link' = link]_vars

\* A command that named an unknown role was refused, the pointer is there.
C11_Witness ==
    \E p \in Procs :
        /\ result[p] = "InputError: no such role"
        /\ link = RolePath(<<"z">> \o CONFIG_EXT)


(***************************************************************************)
(* The tokens a template was written with, read back from its text.        *)
(***************************************************************************)
LineShapes == {LineA, LineAA, LineCA, LineEC, LineAC}

\* The way line was written with id_format, if it was.
Written(line, id_format) ==
    {shape \in LineShapes : LineText(shape, id_format) = line}

TokenNames(shape) ==
    {shape[i].text : i \in {j \in 1..Len(shape) : shape[j].tok}}

\* The identifiers whose tokens are in template t.
Tokens(t, id_format) ==
    UNION {TokenNames(shape) :
              shape \in UNION {Written(templates[t][n], id_format) :
                                  n \in 1..Len(templates[t])}}

\* A line with every token replaced by the value of its identifier.
RECURSIVE Substituted(_, _)
Substituted(shape, values) ==
    IF shape = <<>> THEN <<>>
    ELSE (IF Head(shape).tok THEN values[Head(shape).text]
          ELSE Head(shape).text)
         \o Substituted(Tail(shape), values)

\* The sync of p runs with one of the formats the templates can be written
\* with.
FormatOf(p) == Vals(raw_vals[p], "IdentifierFormat")

(***************************************************************************)
(* C12. Batched validation errors: a sync whose template_pairs hold a      *)
(* token of an identifier that no enabled config defines ends its          *)
(* validation with InputError, and the InputError has a message for every  *)
(* such identifier of every template of template_pairs.                    *)
(***************************************************************************)
MissingTokens(p) ==
    UNION {Tokens(template_pairs[p][i], FormatOf(p)) :
              i \in 1..Len(template_pairs[p])} \ DOMAIN config_values[p]

C12_BatchedErrors ==
    [][\A p \in Procs :
          (pc[p] = "validate" /\ pc'[p] # pc[p] /\ result'[p] # "Killed"
           /\ FormatOf(p) \in IdFormats /\ MissingTokens(p) # {}) =>
             /\ result'[p] = "InputError: identifiers"
             /\ MissingTokens(p) \subseteq Range(input_errors[p])]_vars

(***************************************************************************)
(* C13. Substitution result: with the identifier format one of "{{%s}}",   *)
(* "__%s__" and "${%s}", a source file a sync replaces whose template has  *)
(* only tokens of keys of config_values holds the lines of the template    *)
(* with every token replaced by the value of its key and the other text    *)
(* as it was.                                                              *)
(***************************************************************************)
Publishes(p) ==
    IF pc'[p] = "copy" THEN {}
    ELSE IF pc[p] = "copy" /\ pc'[p] = "publish"
         THEN {template_pairs[p][Cardinality(wrote[p])]}
         ELSE Replaces(p)

C13_SubstitutionResult ==
    [][\A p \in Procs : \A t \in Publishes(p) :
          (/\ FormatOf(p) \in IdFormats
           /\ Tokens(t, FormatOf(p)) \subseteq DOMAIN config_values[p]
           /\ \A n \in 1..Len(templates[t]) :
                 Written(templates[t][n], FormatOf(p)) # {}) =>
             /\ source'[t].kind = "file"
             /\ Len(source'[t].content) = Len(templates[t])
             /\ \A n \in 1..Len(templates[t]) :
                   \A shape \in Written(templates[t][n], FormatOf(p)) :
                       source'[t].content[n] =
                           Substituted(shape, config_values[p])]_vars

(***************************************************************************)
(* C14. A line of the priority file that names no file that can be opened  *)
(* (a config without a file, a role without a selection) is skipped: the   *)
(* merge of such a priority file does not end the sync, and config_values  *)
(* holds the keys of the other configs, each with the value of the first   *)
(* listed config that defines it.                                          *)
(***************************************************************************)
C14_SkipsUnresolvedEntry ==
    [][\A p \in Procs :
          (/\ pc[p] = "merge" /\ pc'[p] # pc[p] /\ result'[p] # "Killed"
           /\ ~AllOpen(priority, link)) =>
             /\ Merged(p)'
             /\ DOMAIN config_values'[p] = EnabledKeys
             /\ \A k \in EnabledKeys :
                   LET first == SetMin({i \in 1..Len(EnabledNames) :
                                           k \in DOMAIN EnabledSource(i)})
                   IN config_values'[p][k] = EnabledSource(first)[k]]_vars

(***************************************************************************)
(* C15. A role symlink that names a file that no longer exists counts as   *)
(* no selection: the merge of a sync whose priority file names the role    *)
(* (and otherwise only configs that exist) does not end the sync and       *)
(* leaves in config_values the values of the other configs, the listing of *)
(* all roles prints an empty selected config for the role, and the listing *)
(* of the role marks none of its configs.                                  *)
(***************************************************************************)
Dangling == link # NoLink /\ link[2] \notin DOMAIN RoleFiles

\* The priority file names the role, and every other line a file.
OnlyRoleUnopened ==
    /\ \E i \in 1..Len(ConfigPriority(priority)) :
          ConfigPriority(priority)[i] = RoleName \o CONFIG_EXT
    /\ \A i \in 1..Len(ConfigPriority(priority)) :
          \/ ConfigPriority(priority)[i] = RoleName \o CONFIG_EXT
          \/ OpenConfig(ConfigPriority(priority)[i], link) # NoFile

\* The command of p is a listing, which the step ends.
Lists(p) ==
    /\ cmd[p].kind = "role" /\ pc[p] = "rcheck"
    /\ pc'[p] = "done" /\ result'[p] = "ok"

C15_DanglingPointer ==
    [][\A p \in Procs :
          Dangling =>
             /\ (/\ pc[p] = "merge" /\ pc'[p] # pc[p]
                 /\ result'[p] # "Killed" /\ OnlyRoleUnopened) =>
                   /\ Merged(p)'
                   /\ DOMAIN config_values'[p] = EnabledKeys
                   /\ \A k \in EnabledKeys :
                         config_values'[p][k] = EnabledSource(
                             SetMin({i \in 1..Len(EnabledNames) :
                                        k \in DOMAIN EnabledSource(i)}))[k]
             /\ (Lists(p) /\ cmd[p].role_name = NoArg) =>
                   stdout'[p][2] = <<RoleName, <<>> >>
             /\ (Lists(p) /\ cmd[p].role_name = RoleName) =>
                   \A i \in 1..Len(stdout'[p]) : stdout'[p][i][1] # "* "]_vars

(***************************************************************************)
(* C16. While the source path of a template is a directory, a sync         *)
(* replaces no source file and leaves info.json as it is, and it ends with *)
(* the StatusError of the loop over the templates.                         *)
(***************************************************************************)
SourceIsDirectory == \E t \in Templates : source[t].kind = "dir"

C16_DirectoryTarget ==
    [][\A p \in Procs :
          (cmd[p].kind = "sync" /\ SourceIsDirectory) =>
             /\ Replaces(p) = {}
             /\ info' = info
             /\ Ends(p) => result'[p] = "StatusError: directory"]_vars

(***************************************************************************)
(* C17. Settings are validated before use: a sync (with info.json in       *)
(* place) that reads a settings.conf for which check_all has an error ends *)
(* when it has read it, with InputError, before the templates are looked   *)
(* at and before anything is written.                                      *)
(***************************************************************************)
C17_SettingsValidated ==
    [][\A p \in Procs :
          (/\ cmd[p].kind = "sync" /\ pc[p] = "read" /\ pc'[p] # pc[p]
           /\ result'[p] # "Killed" /\ info.state = "file"
           /\ check_all(ReadLines(settings, EmptyDict)) # {}) =>
             /\ pc'[p] = "done"
             /\ result'[p] = "InputError: settings"]_vars

(***************************************************************************)
(* C18. Atomic replacement: every step of a sync that changes a source     *)
(* file leaves in it the text it had or the whole text of the temporary    *)
(* file rendered for it, so that a reader finds in a source file the old   *)
(* text or the new one, never a part of either.                            *)
(***************************************************************************)
C18_AtomicReplace ==
    [][\A t \in Templates :
          (source'[t] # source[t] /\ now' = now) =>
             \E p \in Procs : \E i \in 1..Len(template_pairs[p]) :
                 /\ cmd[p].kind = "sync"
                 /\ template_pairs[p][i] = t
                 /\ source'[t].kind = "file"
                 /\ source'[t].content \in {source[t].content,
                                           tmp_paths[p][i].content}]_vars

(***************************************************************************)
(* C19. The daemon starts a sync for every close-write event on a file     *)
(* below the templates directory, on a file below the config directory or  *)
(* on the priority file.                                                   *)
(***************************************************************************)
IsPrefix(a, b) == Len(a) <= Len(b) /\ SubSeq(b, 1, Len(a)) = a

CloseWrite(e) == ~e.dir /\ e.maskname = "IN_CLOSE_WRITE"

C19_SyncOnEveryCloseWrite ==
    [][(/\ CloseWrite(event')
        /\ \/ IsPrefix(TEMPLATES_DIR, event'.path)
           \/ IsPrefix(CONFIG_DIR, event'.path)
           \/ Pathname(event') = PRIORITY_FILE) =>
          spawned' = spawned + 1]_vars

(***************************************************************************)
(* C19, as the handler has it: the daemon starts a sync for exactly the    *)
(* close-write events on a template whose source file exists as a file, on *)
(* a file below the config directory whose name ends with CONFIG_EXT, and  *)
(* on the priority file.                                                   *)
(***************************************************************************)
Qualifies(e) ==
    /\ CloseWrite(e)
    /\ \/ /\ IsPrefix(TEMPLATES_DIR, e.path)
          /\ \E t \in Templates :
                /\ Pathname(e) = TEMPLATES_DIR \o <<TemplateFileName(t)>>
                /\ source[t].kind = "file"
       \/ /\ IsPrefix(CONFIG_DIR, e.path)
          /\ Len(e.name) >= Len(CONFIG_EXT)
          /\ SubSeq(e.name, Len(e.name) - Len(CONFIG_EXT) + 1, Len(e.name))
                = CONFIG_EXT
       \/ Pathname(e) = PRIORITY_FILE

C19_SyncOnQualifyingCloseWrite ==
    [][IF Qualifies(event') THEN spawned' = spawned + 1
       ELSE spawned' = spawned]_vars

\* The daemon has started a sync for the close-write of a template whose
\* source file exists.
C19_Witness ==
    /\ spawned > 0
    /\ event # NoEvent /\ CloseWrite(event)
    /\ IsPrefix(TEMPLATES_DIR, event.path)
    /\ Qualifies(event)

(***************************************************************************)
(* C20. A protected edit stays protected: when a sync without overwrite    *)
(* completes, a source file it left out of template_pairs because its      *)
(* modification time was greater than the stored LastSync is not eligible  *)
(* under the LastSync the sync stores either, so that a later sync without *)
(* overwrite leaves it out too.                                            *)
(***************************************************************************)
Skipped(p) ==
    {t \in Templates \ Range(template_pairs[p]) :
        source[t].kind = "file" /\ ~Eligible(t, committed.LastSync, FALSE)}

C20_ProtectedStaysProtected ==
    [][\A p \in Procs :
          (pc[p] = "dump" /\ result'[p] = "Persisted"
           /\ ~overwrite_source[p]) =>
             \A t \in Skipped(p) : ~Eligible(t, info'.LastSync, FALSE)]_vars

(***************************************************************************)
(* C21. An edit made while a sync without overwrite runs is not lost: the  *)
(* sync replaces no source file whose modification time is greater than    *)
(* the LastSync it read, and when it completes, a source file of its       *)
(* template_pairs that the user wrote during the run is not eligible under *)
(* the LastSync the sync stores.                                           *)
(***************************************************************************)
\* The source files of template_pairs of p that hold something else than
\* what p put there and were written after the last completed sync.
EditedDuringRun(p) ==
    {t \in Range(template_pairs[p]) :
        /\ source[t].kind = "file"
        /\ source[t].mtime > committed.LastSync
        /\ \A i \in 1..Len(tmp_paths[p]) :
              template_pairs[p][i] = t =>
                 source[t] # File(tmp_paths[p][i].content,
                                  tmp_paths[p][i].mtime)}

C21_ConcurrentEditKept ==
    [][\A p \in Procs :
          (cmd[p].kind = "sync" /\ ~overwrite_source[p]) =>
             /\ pc[p] = "publish" =>
                   \A t \in Replaces(p) :
                       ~(source[t].kind = "file"
                         /\ source[t].mtime > info_vals[p].LastSync)
             /\ (pc[p] = "dump" /\ result'[p] = "Persisted") =>
                   \A t \in EditedDuringRun(p) :
                       ~Eligible(t, info'.LastSync, FALSE)]_vars

(***************************************************************************)
(* C22. Publication is all-or-nothing across the batch: a sync that ends   *)
(* otherwise than by completing (an error, a signal) has replaced no       *)
(* source file.                                                            *)
(***************************************************************************)
\* The command of p ends in this step without having completed.
EndsUnpersisted(p) ==
    /\ pc[p] \notin {"idle", "done"}
    /\ pc'[p] = "done"
    /\ result'[p] # "Persisted"

C22_AllOrNothingPublication ==
    [][\A p \in Procs :
          (cmd[p].kind = "sync" /\ EndsUnpersisted(p)) => wrote[p] = {}]_vars

(***************************************************************************)
(* C23. Snapshot consistency: from the merge to the end of a sync its      *)
(* config_values and its settings stay as read, whatever the user writes   *)
(* to the priority file or to settings.conf meanwhile; every temporary     *)
(* file is rendered from that one mapping and that one identifier format,  *)
(* and a source file the sync publishes holds the text of its temporary    *)
(* file.                                                                   *)
(***************************************************************************)
C23_SnapshotConsistency ==
    [][\A p \in Procs :
          /\ (Merged(p) /\ Merged(p)') =>
                /\ config_values'[p] = config_values[p]
                /\ raw_vals'[p] = raw_vals[p]
          /\ (pc[p] = "render" /\ pc'[p] = "validate") =>
                \A i \in 1..Len(template_pairs[p]) :
                    tmp_paths'[p][i].content =
                        RenderFile(templates[template_pairs[p][i]],
                                   config_values[p], FormatOf(p))
          /\ \A t \in Publishes(p) :
                \E i \in 1..Len(template_pairs[p]) :
                    /\ template_pairs[p][i] = t
                    /\ source'[t].content = tmp_paths[p][i].content]_vars

\* A sync has published a source file rendered from a mapping that the
\* priority file, rewritten since, no longer gives.
C23_Witness ==
    \E p \in Procs :
        /\ pc[p] \in {"publish", "copy"}
        /\ wrote[p] # {}
        /\ AllOpen(priority, link)
        /\ config_values[p] # MergeValues(priority, link)
        /\ \E t \in wrote[p] : \E i \in 1..Len(template_pairs[p]) :
              /\ template_pairs[p][i] = t
              /\ source[t].content = tmp_paths[p][i].content
              /\ source[t].content # templates[t]

(***************************************************************************)
(* C24. When a sync completes, every source file that still is as the sync *)
(* published it has a modification time not greater than the LastSync the  *)
(* sync stores, and so is eligible for the next sync without overwrite.    *)
(***************************************************************************)
\* The source files that still are as p published them.
OwnOutput(p) ==
    {t \in wrote[p] :
        \E i \in 1..Len(template_pairs[p]) :
            /\ template_pairs[p][i] = t
            /\ source[t] = File(tmp_paths[p][i].content,
                                tmp_paths[p][i].mtime)}

C24_OutputNotNewerThanLastSync ==
    [][\A p \in Procs :
          (pc[p] = "dump" /\ result'[p] = "Persisted") =>
             \A t \in OwnOutput(p) :
                 /\ source'[t] = source[t]
                 /\ SourceMtime(t) <= info'.LastSync
                 /\ Eligible(t, info'.LastSync, FALSE)]_vars

\* A sync has completed at time 2, after the clock moved on, and a source
\* file holds the text it rendered at that time.
C24_Witness ==
    \E p \in Procs : \E t \in Templates :
        /\ result[p] = "Persisted"
        /\ info = InfoFile(2)
        /\ source[t].kind = "file"
        /\ source[t].mtime = 2
        /\ source[t].content \notin {<<>>, UserText}

(***************************************************************************)
(* C25. Literal, single-level substitution: where the regex finds the      *)
(* tokens, a published file whose template holds tokens of identifiers     *)
(* that are all defined, the value of one of them holding the token of an  *)
(* identifier, has every token replaced by the value of its identifier and *)
(* the values left as they are.                                            *)
(***************************************************************************)
\* The value of an identifier of template t holds the token of an
\* identifier the sync of p has a value for.
ValueHoldsToken(p, t) ==
    \E k \in Tokens(t, FormatOf(p)) \cap DOMAIN config_values[p] :
        \E j \in DOMAIN config_values[p] :
            Occurrences(config_values[p][k],
                        ExpandFormat(FormatOf(p), j)) # {}

C25_ValuesNotRescanned ==
    [][\A p \in Procs : \A t \in Publishes(p) :
          (/\ re_escape = "all"
           /\ FormatOf(p) \in IdFormats
           /\ Tokens(t, FormatOf(p)) \subseteq DOMAIN config_values[p]
           /\ ValueHoldsToken(p, t)
           /\ \A n \in 1..Len(templates[t]) :
                 Written(templates[t][n], FormatOf(p)) # {}) =>
             \A n \in 1..Len(templates[t]) :
                 \A shape \in Written(templates[t][n], FormatOf(p)) :
                     /\ source'[t].kind = "file"
                     /\ source'[t].content[n] =
                            Substituted(shape, config_values[p])]_vars

Refused(p) ==
    {i \in 1..Len(template_pairs[p]) :
        templates[template_pairs[p][i]] = UnreadableFile}

C27_FailureBeforePublishing ==
    [][\A p \in Procs :
          /\ (/\ cmd[p].kind = "sync"
              /\ pc[p] \in {"read", "discover", "merge", "render"}
              /\ Ends(p)) =>
                 /\ result'[p] # "Persisted"
                 /\ wrote[p] = {}
                 /\ source' = source
                 /\ info' = info
                 /\ pc[p] # "read" => info'.LastSync = info_vals[p].LastSync
          /\ (cmd[p].kind = "sync" /\ pc[p] = "render" /\ pc'[p] # pc[p]
              /\ Refused(p) # {}) => Ends(p)]_vars

\* A sync has ended at the second of its two templates, which it could not
\* open, after rendering the first; both source files and info.json are as
\* they were.
C27_Witness ==
    \E p \in Procs :
        /\ result[p] = "OSError: template"
        /\ templates["t1"] # UnreadableFile
        /\ templates["t2"] = UnreadableFile
        /\ source = [t \in Templates |-> File(<<>>, 1)]
        /\ info = InfoFile(1)
        /\ runs = 1

(***************************************************************************)
(* C28. A sync builds its template_pairs (Discovering, Filtering) only     *)
(* when it has built config_values (Resolving).                            *)
(***************************************************************************)
C28_ResolvedBeforeDiscovering ==
    [][\A p \in Procs :
          (pc[p] = "discover" /\ pc'[p] # "done") => Merged(p)']_vars

(***************************************************************************)
(* C28, as main() has it: a started sync ends; its steps are, in this      *)
(* order, the lock, the reading of settings.conf and info.json, the loop   *)
(* that finds and filters the templates, the merge of the configs, the     *)
(* rendering, the check of input_errors, the moves and the writing of      *)
(* info.json, and it can end after any of them; it completes only from the *)
(* last; a source file is replaced only during the moves, which begin only *)
(* with input_errors empty, and info.json is changed only when every move  *)
(* is done.                                                                *)
(***************************************************************************)
SyncOrder == <<"start", "read", "discover", "merge", "render", "validate",
               "publish", "dump", "done">>

\* The place of a step in SyncOrder; the copy of a move that cannot rename
\* belongs to the moves.
Place(at) ==
    IF at = "copy" THEN 7
    ELSE IF at = "idle" THEN 0
    ELSE CHOOSE i \in 1..Len(SyncOrder) : SyncOrder[i] = at

C28_StepsInOrder ==
    /\ [][\A p \in Procs :
            /\ (pc[p] \notin {"idle", "done"} /\ pc'[p] # pc[p]) =>
                  \/ pc'[p] = "done"
                  \/ Place(pc'[p]) = Place(pc[p]) + 1
                  \/ Place(pc'[p]) = 7 /\ Place(pc[p]) = 7
            /\ (result'[p] = "Persisted" /\ result[p] # "Persisted") =>
                  /\ pc[p] = "dump"
                  /\ info' = InfoFile(info_vals[p].LastSync)
            /\ (wrote'[p] # wrote[p] /\ pc'[p] # "done") =>
                  /\ Place(pc[p]) = 7
                  /\ input_errors[p] = <<>>]_vars
    /\ [][source' # source =>
            \E p \in Procs : Place(pc[p]) = 7 /\ input_errors[p] = <<>>]_vars
    /\ [][info' # info =>
            \E p \in Procs :
                /\ Place(pc[p]) = 7 \/ pc[p] = "dump"
                /\ Place(pc'[p]) > 7
                /\ input_errors[p] = <<>>
                /\ wrote[p] = Range(template_pairs[p])]_vars
    /\ \A p \in Procs : (pc[p] = "start") ~> (pc[p] = "done")

\* A sync has completed after it published both source files.
C28_Witness ==
    \E p \in Procs :
        /\ result[p] = "Persisted"
        /\ \A t \in Templates :
              source[t].kind = "file" /\ source[t].content # <<>>

(***************************************************************************)
(* C29. Once a switch of the role to a config has completed, every sync    *)
(* that reads the config files while the priority file names the role, and *)
(* no other switch has completed since, goes on to render with the values  *)
(* the priority file and that config of the role give.                     *)
(***************************************************************************)
NamesRole(lines) ==
    \E i \in 1..Len(ConfigPriority(lines)) :
        ConfigPriority(lines)[i] = RoleName \o CONFIG_EXT

C29_SwitchTakesEffect ==
    [][\A p \in Procs :
          (/\ cmd[p].kind = "sync"
           /\ pc[p] = "merge" /\ pc'[p] # pc[p]
           /\ result'[p] # "Killed"
           /\ selected # NoArg
           /\ NamesRole(priority)) =>
             /\ pc'[p] = "render"
             /\ config_values'[p] =
                    MergeValues(priority, RolePath(selected))]_vars

(***************************************************************************)
(* C30. Every step that changes a template file, the role's pointer, a     *)
(* source file or info.json is a step of the process that holds the lock.  *)
(***************************************************************************)
C30_WritesUnderLock ==
    [][(\/ templates' # templates
        \/ link' # link
        \/ source' # source
        \/ info' # info) =>
          \E p \in Procs :
              /\ lock = p
              /\ pc[p] \notin {"idle", "done"}
              /\ pc'[p] # pc[p] \/ wrote'[p] # wrote[p]]_vars

(***************************************************************************)
(* C31. A role that had a valid selection always has a pointer, and the    *)
(* pointer names the config selected before or the config a switch in      *)
(* progress or ended (by its return or by a signal) was asked for.         *)
(***************************************************************************)
C31_SelectAtomic ==
    /\ link # NoLink
    /\ \/ link = RolePath(selected)
       \/ \E p \in Procs :
              /\ cmd[p].kind = "role"
              /\ config_name[p] \in RoleConfigs
              /\ link = RolePath(config_name[p])

(***************************************************************************)
(* C32. Whenever the daemon has started a sync for a close-write of the    *)
(* priority file it has observed (every identifier of the templates has a  *)
(* value), that sync or one the daemon starts later reaches Persisted,     *)
(* also when a command started from the shell holds the lock at the time.  *)
(***************************************************************************)
C32_NoChangeLost ==
    \A p \in Procs :
        (notifier.cmd = p /\ pc[p] = "start")
            ~> (\E q \in Procs :
                   notifier.cmd = q /\ result[q] = "Persisted")

(***************************************************************************)
(* C33. Of the syncs the daemon has started at most one is running at any  *)
(* time: the daemon hands the next event to its handler only when no sync  *)
(* it started is still running, and no sync it started fails on the lock   *)
(* while another sync it started holds the lock.                           *)
(***************************************************************************)
Running(p) == pc[p] \notin {"idle", "done"}

C33_OneDaemonSync ==
    /\ [](\A p, q \in notifier.popened :
             Running(p) /\ Running(q) => p = q)
    /\ [][/\ Len(notifier'.events) < Len(notifier.events) =>
                \A p \in notifier.popened : ~Running(p)
          /\ \A p \in notifier.popened :
                (result'[p] = "StatusError: locked" /\ Running(p)) =>
                    lock \notin notifier.popened]_vars

\* The daemon has started its second sync, for the second save of the
\* priority file, after the first one ended.
C33_Witness ==
    /\ spawned = 2
    /\ \E p \in notifier.popened : notifier.cmd = p /\ Running(p)

(***************************************************************************)
(* C34. For every value of OverwriteAlways that the validation of the      *)
(* settings accepts, the interpretation is True exactly for a true-token   *)
(* and False exactly for a false-token, in any case of the letters, never  *)
(* undefined, and a sync overwrites only when asked to on the command line *)
(* or by a true-token.                                                     *)
(***************************************************************************)
C34_OverwriteAlwaysAgrees ==
    [][\A p \in Procs :
          (/\ pc[p] = "read" /\ pc'[p] = "discover"
           /\ check_all(raw_vals'[p]) = {}) =>
             LET token == lower(Vals(raw_vals'[p], "OverwriteAlways"))
             IN /\ overwrite_always(raw_vals'[p]) =
                       IF token \in true_vals THEN "True" ELSE "False"
                /\ overwrite_source'[p] =
                       (cmd[p].overwrite \/ token \in true_vals)]_vars

(***************************************************************************)
(* C35. When a run of rm-template ends, the templates root directory       *)
(* exists, also when the run has removed the last template, and the only   *)
(* template file gone is the one the command named.                        *)
(***************************************************************************)
C35_TemplatesRootKept ==
    [][\A p \in Procs :
          /\ (/\ cmd[p].kind = "rm-template"
              /\ pc'[p] = "done"
              /\ result'[p] # "Killed") => templates_dir'
          /\ (/\ cmd[p].kind = "rm-template"
              /\ pc'[p] # pc[p]
              /\ templates' # templates) =>
                \A t \in Templates \ {cmd[p].file} :
                    templates'[t] = templates[t]]_vars

(***************************************************************************)
(* C36. When a run of rm-template without --leave-options ends, every      *)
(* config file holds its former lines in their order, less exactly the     *)
(* key=value lines whose key no remaining template references: comments,   *)
(* blank lines and lines without a separator are all kept. No step of the  *)
(* command writes a config file, so the lines it holds at the end are the  *)
(* ones it held before.                                                    *)
(***************************************************************************)
ReferencedKeys ==
    LET id_format == Vals(ReadLines(settings, EmptyDict), "IdentifierFormat")
    IN UNION {UNION {Range(FindAll(templates[t][n], 1,
                                   FormatPrefix(id_format),
                                   FormatSuffix(id_format))) :
                        n \in 1..Len(templates[t])} : t \in Listed}

KeepReferenced(lines) ==
    SelectSeq(lines,
              LAMBDA line : \/ IsComment(line)
                            \/ ~HasSeparator(line)
                            \/ Strip(Partition(line)[1]) \in ReferencedKeys)

C36_RemovesUnusedOptions ==
    [][\A p \in Procs :
          (/\ cmd[p].kind = "rm-template"
           /\ pc[p] = "rmoptions" /\ pc'[p] = "done"
           /\ result'[p] # "Killed") =>
             /\ \A f \in DOMAIN ConfigFiles :
                   ConfigFiles[f] = KeepReferenced(ConfigFiles[f])
             /\ \A f \in DOMAIN RoleFiles :
                   RoleFiles[f] = KeepReferenced(RoleFiles[f])]_vars

(***************************************************************************)
(* C37. A sync that finds no info.json when it loads the metadata does not *)
(* fail there: it generates the file and goes on to look for the           *)
(* templates.                                                              *)
(***************************************************************************)
C37_FirstRunGeneratesMetadata ==
    [][\A p \in Procs :
          (/\ cmd[p].kind = "sync"
           /\ pc[p] = "read" /\ pc'[p] # pc[p]
           /\ result'[p] # "Killed"
           /\ info.state = "absent") =>
             /\ pc'[p] = "discover"
             /\ info'.state = "file"]_vars

(***************************************************************************)
(* C38. The listing of a role prints the role's configs in ascending order *)
(* of their names and marks a config exactly when the role's symlink       *)
(* exists and names that config's own file; it marks at most one, and none *)
(* when the symlink is missing or names a file that does not exist.        *)
(***************************************************************************)
C38_ListingMarksSelection ==
    [][\A p \in Procs :
          (/\ cmd[p].kind = "role"
           /\ cmd[p].role_name = RoleName /\ config_name[p] = NoArg
           /\ pc[p] = "rcheck" /\ pc'[p] = "done"
           /\ result'[p] = "ok") =>
             LET out == stdout'[p]
             IN /\ Len(out) = Cardinality(RoleConfigs)
                /\ {out[i][2] \o CONFIG_EXT : i \in 1..Len(out)} = RoleConfigs
                /\ \A i, j \in 1..Len(out) :
                      i < j => StrLess(out[i][2], out[j][2])
                /\ \A i \in 1..Len(out) :
                      out[i][1] = "* " <=>
                          link = RolePath(out[i][2] \o CONFIG_EXT)]_vars

(***************************************************************************)
(* C39. Reading a flat config file gives exactly this mapping: a comment   *)
(* line (whitespace, then "#") and a line without "=" give nothing; every  *)
(* other line gives the text before its first "=" as the key and the text  *)
(* after it as the value, both without the surrounding whitespace, and of  *)
(* the lines with the same key the last one gives the value.               *)
(***************************************************************************)
CommentLine(line) ==
    \E i \in 1..Len(line) :
        line[i] = "#" /\ \A j \in 1..(i - 1) : line[j] \in Whitespace

FirstSeparator(line) ==
    CHOOSE i \in 1..Len(line) :
        line[i] = "=" /\ \A j \in 1..(i - 1) : line[j] # "="

Contributes(line) ==
    ~CommentLine(line) /\ \E i \in 1..Len(line) : line[i] = "="

Trimmed(text) ==
    LET kept == {i \in 1..Len(text) : text[i] \notin Whitespace}
    IN IF kept = {} THEN <<>>
       ELSE SubSeq(text, SetMin(kept), SetMax(kept))

KeyOf(line) == Trimmed(SubSeq(line, 1, FirstSeparator(line) - 1))

ValueOf(line) ==
    Trimmed(SubSeq(line, FirstSeparator(line) + 1, Len(line)))

FlatMapping(lines) ==
    LET giving == {i \in 1..Len(lines) : Contributes(lines[i])}
    IN [key \in {KeyOf(lines[i]) : i \in giving} |->
           ValueOf(lines[SetMax({i \in giving : KeyOf(lines[i]) = key})])]

C39_FlatConfigMapping ==
    [][\A p \in Procs :
          (pc[p] = "read" /\ pc'[p] = "discover") =>
              raw_vals'[p] = FlatMapping(settings)]_vars

\* A sync has read a file whose two lines give the same key, the second
\* with "=" in its value or with whitespace around the key and the value.
C39_Witness ==
    \E p \in Procs :
        /\ pc[p] = "discover"
        /\ Len(settings) = 2
        /\ settings[1] = <<"a", "=", "1">>
        /\ settings[2] \in {<<"a", "=", "=", "3">>,
                            <<" ", "a", " ", "=", " ", "2", " ">>}
        /\ raw_vals[p][<<"a">>] \in {<<"=", "3">>, <<"2">>}


====
